---- MODULE Spec2Model ----
(***************************************************************************)
(* Interaction graph analytics of social-graph-mining-github.              *)
(*                                                                         *)
(* The repository holds three ingestion programs that build a weighted     *)
(* directed graph of contributor interactions from the same four event     *)
(* tables (issues, pull requests, comments, reviews):                      *)
(*   "processor" : GitHubGraphProcessor   (src/github_processor.py)        *)
(*   "explorer"  : DataExplorer           (src/data_explorer.py)           *)
(*   "social"    : SocialGraph            (src/social_graph_analysis.py)   *)
(* A behaviour of this module is a run of one of them (variable variant):  *)
(* rows are ingested one per step, then the analytic queries run.          *)
(*                                                                         *)
(* GitHubGraphProcessor and DataExplorer keep their graph in a MatrixGraph *)
(* of the package graphs_project, which is not part of the sources; the    *)
(* Lib* operators model it from the Graph Store contract of the            *)
(* specification (add_edge creates the edge or adds to its weight).        *)
(***************************************************************************)
EXTENDS Integers, Sequences, FiniteSets, Bags, TLC

VARIABLES
    variant,          \* which of the programs runs
    issues,           \* issue number -> author cell, as load_data leaves it
    pull_requests,    \* PR number -> author cell, as load_data leaves it
    graph,            \* self.graph of processor / explorer (MatrixGraph)
    added_vertices,   \* self.added_vertices of processor / explorer
    user_weights,     \* self.user_weights of the processor
    nodes,            \* SocialGraph.nodes: user -> its 'weight'
    node_order,       \* insertion order of the keys of SocialGraph.nodes
    edges,            \* SocialGraph.edges: user -> (user -> weight)
    reverse_edges,    \* SocialGraph.reverse_edges
    communities_cache, \* SocialGraph._communities_cache
    user_interactions, \* DataExplorer.user_interactions of data_teste.py
    user_degrees,     \* DataExplorer.user_degrees of data_teste.py
    call,             \* the locals of a running call of find_natural_groups
    miner,            \* the GitHubMiner object and the locals of make_graphql_request
    hash_hits,        \* the pairs (closer, author) with hash(closer+author) % 10 = 0
    pc,               \* position of the run
    result,           \* value returned by the last query of DataExplorer
    log,              \* history: bag of the rows ingested in the first pass
    round             \* history: how many times the rows of log were ingested

vars == <<variant, issues, pull_requests, graph, added_vertices, user_weights,
          nodes, node_order, edges, reverse_edges, communities_cache,
          user_interactions, user_degrees, call, miner, hash_hits, pc, result, log,
          round>>

----------------------------------------------------------------------------
(* Bounds and input alphabets *)

\* number of rows ingested in the first pass
MaxEvents == 2

Users == {"alice", "bob"}
\* the authors of issues: the users and one who only opens issues
Authors == Users \cup {"carol"}
\* an empty CSV cell as pandas reads it
NaN == "NaN"
\* the value of row.get(col) when the table has no such column
None == "None"
\* the sentinel that load_data substitutes for a missing author
Unknown == "unknown"
RawCells == Users \cup {NaN}
Ids == Authors \cup {Unknown, NaN, None}

IssueNumbers == {1}
PrNumbers == {2}
\* 3 is a number that no issue and no pull request carries
RefNumbers == {1, 2, 3}

Variants == {"processor", "explorer", "social"}
\* arguments of the queries: min_group_size (3 by default), target_user
MinGroupSizes == {1, 3}
QueryTargets == Authors \cup {Unknown}

\* hash() of a string is salted per process: the pairs it selects are an input
HashHitSets == {{}, {<<"alice", "bob">>}, {<<"bob", "alice">>, <<"alice", "bob">>}}

----------------------------------------------------------------------------
(* pandas / Python primitives *)

isna(x) == x \in {NaN, None}
notna(x) == ~isna(x)
\* truth value of a cell: only the empty string is falsy (NaN is truthy)
Truthy(x) == x # ""

\* df[col].fillna('unknown')
Fillna(x) == IF x = NaN THEN Unknown ELSE x

EmptyFn == [x \in {} |-> 0]
\* d[k] += w on a defaultdict(int)
Bump(f, k, w) == IF k \in DOMAIN f THEN [f EXCEPT ![k] = @ + w] ELSE (k :> w) @@ f
\* d.get(k, 0)
Get0(f, k) == IF k \in DOMAIN f THEN f[k] ELSE 0

\* sum(f[x] for x in S)
RECURSIVE SumSet(_, _)
SumSet(f, S) ==
    IF S = {} THEN 0
    ELSE LET x == CHOOSE y \in S : TRUE IN f[x] + SumSet(f, S \ {x})
SeqToSet(s) == {s[i] : i \in 1..Len(s)}

\* a dict whose order matters: its keys in insertion order, and its values
EmptyDict == [keys |-> <<>>, value |-> EmptyFn]
\* d.get(k, default)
DictGet(d, k, default) == IF k \in DOMAIN d.value THEN d.value[k] ELSE default
\* d[k] = v
DictSet(d, k, v) ==
    [keys |-> IF k \in DOMAIN d.value THEN d.keys ELSE Append(d.keys, k),
     value |-> (k :> v) @@ d.value]
IndexOf(s, x) == CHOOSE i \in 1..Len(s) : s[i] = x

----------------------------------------------------------------------------
(* MatrixGraph of graphs_project, modelled from the Graph Store contract *)

NewGraph == [vertices |-> <<>>, edges |-> EmptyFn, matrix |-> EmptyFn]

LibAddVertex(g, id) ==
    LET n == Len(g.vertices) + 1
    IN [g EXCEPT !.vertices = Append(@, id),
                 !.matrix = [p \in (1..n) \X (1..n) |->
                               IF p \in DOMAIN g.matrix THEN g.matrix[p] ELSE 0]]

LibAddEdge(g, s, t, w, label) ==
    LET k == <<s, t, label>>
        p == <<IndexOf(g.vertices, s), IndexOf(g.vertices, t)>>
    IN [g EXCEPT !.edges = Bump(@, k, w),
                 !.matrix[p] = @ + w]

LibSetEdgeWeight(g, w, s, t, label) ==
    LET k == <<s, t, label>>
        p == <<IndexOf(g.vertices, s), IndexOf(g.vertices, t)>>
    IN [g EXCEPT !.edges[k] = w,
                 !.matrix[p] = @ - g.edges[k] + w]

\* graph.matrix[i][j] addressed by vertex ids (0 when an id is no vertex)
MatrixAt(g, s, t) ==
    IF s \in SeqToSet(g.vertices) /\ t \in SeqToSet(g.vertices)
    THEN g.matrix[<<IndexOf(g.vertices, s), IndexOf(g.vertices, t)>>]
    ELSE 0

----------------------------------------------------------------------------
(* Event rows.  Every row is a record of the same shape; a field a table   *)
(* does not have holds None.                                               *)

Row(k, n, a, st, m, mb, cb) ==
    [kind |-> k, number |-> n, author |-> a, state |-> st,
     merged |-> m, merged_by |-> mb, closed_by |-> cb]

IssueRows == {Row("issue", n, None, st, FALSE, None, cb) :
                n \in IssueNumbers, st \in {"open", "closed"}, cb \in RawCells}

\* pull-request rows: merged, closed without merge, still open, and a closed
\* row of a table without the closed_by column
PrRows ==
    {Row("pr", n, None, "closed", TRUE, mb, NaN) : n \in PrNumbers, mb \in RawCells}
    \cup {Row("pr", n, None, "closed", FALSE, NaN, cb) : n \in PrNumbers, cb \in RawCells}
    \cup {Row("pr", n, None, "closed", TRUE, "alice", "bob") : n \in PrNumbers}
    \cup {Row("pr", n, None, "closed", TRUE, None, None) : n \in PrNumbers}
    \cup {Row("pr", n, None, "closed", FALSE, None, None) : n \in PrNumbers}
    \cup {Row("pr", n, None, "open", FALSE, NaN, NaN) : n \in PrNumbers}

ReviewRows == {Row("review", n, a, "APPROVED", FALSE, None, None) :
                n \in RefNumbers \ IssueNumbers, a \in RawCells}

CommentRows == {Row("comment", n, a, "", FALSE, None, None) :
                n \in RefNumbers, a \in RawCells}

----------------------------------------------------------------------------
(* GitHubGraphProcessor.  A processor state is the record                  *)
(* [graph, added_vertices, user_weights].                                  *)

GetEdgeWeight(g, source, target, label) == Get0(g.edges, <<source, target, label>>)

EnsureVertexAlways(st, id) ==
    [st EXCEPT !.graph = LibAddVertex(@, id), !.added_vertices = @ \cup {id}]

\* _add_interaction, lines 136-152 (and _add_batch_interactions, 118-126)
EnsureVertex(st, id) ==
    IF id \notin st.added_vertices
    THEN [st EXCEPT !.graph = LibAddVertex(@, id),
                    !.added_vertices = @ \cup {id}]
    ELSE st

AddInteractionOverwrite(st, source, target, weight, label) ==
    IF source = target \/ ~Truthy(source) \/ ~Truthy(target)
    THEN st
    ELSE LET s2 == EnsureVertex(EnsureVertex(st, source), target)
             s3 == [s2 EXCEPT !.user_weights = Bump(Bump(@, source, weight), target, weight)]
         IN IF <<source, target, label>> \in DOMAIN s3.graph.edges
            THEN [s3 EXCEPT !.graph = LibSetEdgeWeight(@, weight, source, target, label)]
            ELSE [s3 EXCEPT !.graph = LibAddEdge(@, source, target, weight, label)]

AddInteractionNoGuard(st, source, target, weight, label) ==
    LET s2 == EnsureVertex(EnsureVertex(st, source), target)
        s3 == [s2 EXCEPT !.user_weights = Bump(Bump(@, source, weight), target, weight)]
    IN [s3 EXCEPT !.graph = LibAddEdge(@, source, target, weight, label)]

\* _add_interaction
AddInteraction(st, source, target, weight, label) ==
    IF source = target \/ ~Truthy(source) \/ ~Truthy(target)
    THEN st
    ELSE LET s2 == EnsureVertex(EnsureVertex(st, source), target)
             s3 == [s2 EXCEPT !.user_weights = Bump(Bump(@, source, weight), target, weight)]
             edge_exists == <<source, target, label>> \in DOMAIN s3.graph.edges
         IN IF edge_exists
            THEN [s3 EXCEPT !.graph =
                    LibSetEdgeWeight(@, GetEdgeWeight(s3.graph, source, target, label) + weight,
                                     source, target, label)]
            ELSE [s3 EXCEPT !.graph = LibAddEdge(@, source, target, weight, label)]


\* _process_issue_closures, one row of self.issues
process_issue_closures(st, row) ==
    IF row.state = "closed" /\ notna(Fillna(row.closed_by))
    THEN AddInteraction(st, issues[row.number], Fillna(row.closed_by),
                        3, <<"Closed issue", row.number, "">>)
    ELSE st

\* closer of a pull-request row (line 71)
PrCloser(row) ==
    IF row.merged THEN Fillna(row.merged_by)
    ELSE IF row.closed_by = None THEN Unknown ELSE Fillna(row.closed_by)

\* _process_pr_merges, one row of self.pull_requests
process_pr_merges(st, row) ==
    IF row.state = "closed" /\ notna(PrCloser(row))
    THEN AddInteraction(st, pull_requests[row.number], PrCloser(row), 3,
                        <<IF row.merged THEN "Merged PR" ELSE "Closed PR", row.number, "">>)
    ELSE st

\* _process_reviews, one row of self.reviews
process_reviews(st, row) ==
    IF row.number \notin DOMAIN pull_requests
    THEN st
    ELSE IF isna(pull_requests[row.number]) \/ isna(Fillna(row.author))
    THEN st
    ELSE AddInteraction(st, pull_requests[row.number], Fillna(row.author), 2,
                        <<"Review on PR", row.number, row.state>>)

\* _process_comments, one row of self.comments
process_comments(st, row) ==
    LET source_df == IF row.number \in DOMAIN issues THEN issues ELSE pull_requests
    IN IF row.number \in DOMAIN source_df
       THEN AddInteraction(st, source_df[row.number], Fillna(row.author), 2,
                           <<"Comment on", row.number, "">>)
       ELSE st

\* process_interactions applied to one row
ProcessorIngest(st, row) ==
    CASE row.kind = "issue" -> process_issue_closures(st, row)
      [] row.kind = "pr" -> process_pr_merges(st, row)
      [] row.kind = "review" -> process_reviews(st, row)
      [] row.kind = "comment" -> process_comments(st, row)

----------------------------------------------------------------------------
(* DataExplorer (src/data_explorer.py); user_weights is not part of it *)

\* _add_batch_interactions, one interaction of the batch
add_batch_interactions(st, source, target, weight, label) ==
    IF source = target \/ ~Truthy(source) \/ ~Truthy(target)
    THEN st
    ELSE LET s2 == EnsureVertex(EnsureVertex(st, source), target)
         IN [s2 EXCEPT !.graph = LibAddEdge(@, source, target, weight, label)]

\* _process_reviews_batch, one row of self.reviews
process_reviews_batch(st, row) ==
    IF row.number \notin DOMAIN pull_requests
    THEN st
    ELSE IF isna(pull_requests[row.number]) \/ isna(Fillna(row.author))
    THEN st
    ELSE add_batch_interactions(st, pull_requests[row.number], Fillna(row.author), 1,
                                <<"Review on PR", row.number, row.state>>)

\* _process_comments_batch, one row of self.comments
process_comments_batch(st, row) ==
    LET cache == IF row.number \in DOMAIN issues THEN issues ELSE pull_requests
    IN IF row.number \in DOMAIN cache
       THEN add_batch_interactions(st, cache[row.number], Fillna(row.author), 1,
                                   <<"Comment on", row.number, "">>)
       ELSE st

\* build_interaction_graph applied to one row
ExplorerIngest(st, row) ==
    CASE row.kind = "review" -> process_reviews_batch(st, row)
      [] row.kind = "comment" -> process_comments_batch(st, row)
      [] OTHER -> st

\* sum(f[j] for j in range(n))
RECURSIVE SumRange(_, _)
SumRange(f, n) == IF n = 0 THEN 0 ELSE SumRange(f, n - 1) + f[n]

\* the dict key a loop over ids assigns last: the greatest index holding v
LastIndexOf(ids, v) ==
    CHOOSE i \in 1..Len(ids) : ids[i] = v /\ \A k \in 1..Len(ids) : ids[k] = v => k <= i

\* calculate_weighted_degrees with the row sum taken twice and no column sum
calculate_weighted_degrees_row_twice(g) ==
    LET ids == g.vertices
        n == Len(ids)
        out_degree(i) == SumRange([j \in 1..n |-> g.matrix[<<i, j>>]], n)
    IN [v \in SeqToSet(ids) |-> out_degree(LastIndexOf(ids, v)) + out_degree(LastIndexOf(ids, v))]

\* calculate_weighted_degrees
calculate_weighted_degrees(g) ==
    LET ids == g.vertices
        n == Len(ids)
        out_degree(i) == SumRange([j \in 1..n |-> g.matrix[<<i, j>>]], n)
        in_degree(i) == SumRange([j \in 1..n |-> g.matrix[<<j, i>>]], n)
    IN [v \in SeqToSet(ids) |-> out_degree(LastIndexOf(ids, v)) + in_degree(LastIndexOf(ids, v))]

\* calculate_user_scores: a defaultdict, so only the users of a positive cell
\* of the matrix are keys
calculate_user_scores(g) ==
    LET ids == g.vertices
        n == Len(ids)
        cells == {p \in (1..n) \X (1..n) : g.matrix[p] > 0}
        as_source(v) == {p \in cells : ids[p[1]] = v}
        as_target(v) == {p \in cells : ids[p[2]] = v}
    IN [v \in {ids[p[1]] : p \in cells} \cup {ids[p[2]] : p \in cells} |->
          SumSet(g.matrix, as_source(v)) + SumSet(g.matrix, as_target(v))]

----------------------------------------------------------------------------
(* SocialGraph (src/social_graph_analysis.py).  A SocialGraph state is the *)
(* record [nodes, node_order, edges, reverse_edges]; edges and             *)
(* reverse_edges are defaultdicts of defaultdicts: reading edges[u]        *)
(* creates the key u.                                                      *)

\* _communities_cache = None
NoCache == [is_none |-> TRUE, value |-> <<>>]

NewSocial == [nodes |-> EmptyFn, node_order |-> <<>>, edges |-> EmptyFn,
              reverse_edges |-> EmptyFn, communities_cache |-> NoCache]

\* d[k] on a defaultdict of dicts: the key exists afterwards
Touch(d, k) == IF k \in DOMAIN d THEN d ELSE (k :> EmptyFn) @@ d
\* d[k] read without creating it
Inner(d, k) == IF k \in DOMAIN d THEN d[k] ELSE EmptyFn

\* _add_node
add_node(s, user) ==
    IF user \notin DOMAIN s.nodes
    THEN [s EXCEPT !.nodes = (user :> 1) @@ @, !.node_order = Append(@, user)]
    ELSE [s EXCEPT !.nodes[user] = @ + 1]

\* _add_edge with self.reverse_edges[from_user][to_user] += weight
add_edge_same_direction(s, from_user, to_user, weight) ==
    LET s2 == add_node(add_node(s, from_user), to_user)
    IN [s2 EXCEPT
          !.edges = [Touch(@, from_user) EXCEPT ![from_user] = Bump(@, to_user, weight)],
          !.reverse_edges = [Touch(@, from_user) EXCEPT
                               ![from_user] = Bump(@, to_user, weight)]]

\* _add_edge
add_edge(s, from_user, to_user, weight) ==
    LET s2 == add_node(add_node(s, from_user), to_user)
    IN [s2 EXCEPT
          !.edges = [Touch(@, from_user) EXCEPT ![from_user] = Bump(@, to_user, weight)],
          !.reverse_edges = [Touch(@, to_user) EXCEPT ![to_user] = Bump(@, from_user, weight)]]

\* the local dict issue_authors of build_graph (lines 94-107)
issue_authors == [n \in {m \in DOMAIN issues : notna(issues[m]) /\ Truthy(issues[m])}
                    |-> issues[n]]
\* the local dict pr_authors of build_graph (lines 95-125)
pr_authors == [n \in {m \in DOMAIN pull_requests :
                        notna(pull_requests[m]) /\ Truthy(pull_requests[m])}
                 |-> pull_requests[n]]

RECURSIVE AddAuthors(_, _, _)
\* the loops over issues_df and prs_df: one _add_node per row with an author
AddAuthors(s, table, todo) ==
    IF todo = {} THEN s
    ELSE LET n == CHOOSE m \in todo : \A k \in todo : m <= k
         IN AddAuthors(add_node(s, table[n]), table, todo \ {n})

\* build_graph, lines 84-131: clear, then the issue and pull-request rows
build_graph_begin ==
    LET s1 == AddAuthors(NewSocial, issues, DOMAIN issue_authors)
    IN AddAuthors(s1, pull_requests, DOMAIN pr_authors)

\* build_graph, lines 136-155: one row of comments_df
build_graph_comment(s, row) ==
    LET commenter == row.author
    IN IF notna(commenter) /\ Truthy(commenter)
       THEN LET s1 == add_node(s, commenter)
                item_author == IF row.number \in DOMAIN issue_authors
                               THEN issue_authors[row.number]
                               ELSE IF row.number \in DOMAIN pr_authors
                               THEN pr_authors[row.number]
                               ELSE None
            IN IF item_author # None /\ commenter # item_author
               THEN add_edge(s1, commenter, item_author, 2)
               ELSE s1
       ELSE s

\* build_graph, lines 160-175: one row of reviews_df
build_graph_review(s, row) ==
    LET reviewer == row.author
    IN IF notna(reviewer) /\ Truthy(reviewer)
       THEN LET s1 == add_node(s, reviewer)
            IN IF row.number \in DOMAIN pr_authors
                  /\ reviewer # pr_authors[row.number]
               THEN add_edge(s1, reviewer, pr_authors[row.number], 2)
               ELSE s1
       ELSE s

RECURSIVE AddClosures(_, _)
AddClosures(s, pairs) ==
    IF pairs = {} THEN s
    ELSE LET p == CHOOSE q \in pairs : TRUE
         IN AddClosures(add_edge(s, p[1], p[2], 3), pairs \ {p})

\* _process_closure_interactions: with at most 10 users every ordered pair of
\* distinct users is tried, and the pairs the hash selects get a closure edge
process_closure_interactions(s) ==
    AddClosures(s, {p \in hash_hits :
                      p[1] \in DOMAIN s.nodes /\ p[2] \in DOMAIN s.nodes /\ p[1] # p[2]})

SocialIngest(s, row) ==
    CASE row.kind = "comment" -> build_graph_comment(s, row)
      [] row.kind = "review" -> build_graph_review(s, row)
      [] OTHER -> s

----------------------------------------------------------------------------
(* The queries of SocialGraph, as far as they write to the object: a read  *)
(* of self.edges[u] or self.reverse_edges[u] creates the key u, and        *)
(* find_natural_groups fills _communities_cache.                           *)

\* while improved and iteration < 10
MaxIterations == 10
\* if current_distance >= 3: continue
SearchDepth == 3

\* set(self.edges[user].keys()) | set(self.reverse_edges[user].keys())
Neighbors(s, user) == DOMAIN Inner(s.edges, user) \cup DOMAIN Inner(s.reverse_edges, user)

\* self.edges[u] and self.reverse_edges[u] have been read for every u of S
ReadAdjacency(s, S) ==
    [s EXCEPT !.edges = [u \in DOMAIN s.edges \cup S |-> Inner(s.edges, u)],
              !.reverse_edges = [u \in DOMAIN s.reverse_edges \cup S |->
                                    Inner(s.reverse_edges, u)]]

RECURSIVE Reach(_, _)
\* the users a breadth-first search started from the users of S dequeues
Reach(s, S) ==
    LET T == S \cup UNION {Neighbors(s, u) : u \in S}
    IN IF T = S THEN S ELSE Reach(s, T)

RECURSIVE Ball(_, _, _)
\* the users at distance at most k from a user of S
Ball(s, S, k) ==
    IF k = 0 THEN S ELSE Ball(s, S \cup UNION {Neighbors(s, u) : u \in S}, k - 1)

\* get_most_influential_users
get_most_influential_users(s) ==
    IF DOMAIN s.nodes = {} THEN s ELSE ReadAdjacency(s, DOMAIN s.nodes)

\* _count_connected_components
count_connected_components(s) == ReadAdjacency(s, Reach(s, DOMAIN s.nodes))

\* find_most_fragmenting_user: the removal is simulated on the copy temp_edges
find_most_fragmenting_user(s) ==
    IF Cardinality(DOMAIN s.nodes) < 3 THEN s ELSE count_connected_components(s)

\* _calculate_modularity_gain, doubled to stay in the integers
calculate_modularity_gain(s, user, target_community, community_map) ==
    LET user_neighbors == Neighbors(s, user)
        internal_connections ==
            Cardinality({nb \in user_neighbors : community_map[nb] = target_community})
        external_connections == Cardinality(user_neighbors) - internal_connections
    IN 2 * internal_connections - external_connections

\* the communities the scan of neighbor_communities can end on: the scan
\* keeps the first community of strictly greater gain, and the order of a
\* set of strings changes from one process to the next
BestCommunities(s, user, community_map) ==
    LET neighbor_communities == {community_map[nb] : nb \in Neighbors(s, user)}
        gain(c) == calculate_modularity_gain(s, user, c, community_map)
        better == {c \in neighbor_communities : c # community_map[user] /\ gain(c) > 0}
        best == {c \in better : \A d \in better : gain(d) <= gain(c)}
    IN IF best = {} THEN {community_map[user]} ELSE best

RECURSIVE PassFrom(_, _, _, _)
\* for user in self.nodes, from the i-th user on: the pairs
\* <<community_map, improved>> the loop can end with
PassFrom(s, i, community_map, improved) ==
    IF i > Len(s.node_order)
    THEN {<<community_map, improved>>}
    ELSE LET user == s.node_order[i]
             moved(c) == [u \in DOMAIN community_map |->
                            IF u = user THEN c ELSE community_map[u]]
         IN UNION {PassFrom(s, i + 1, moved(c), improved \/ c # community_map[user]) :
                     c \in BestCommunities(s, user, community_map)}

RECURSIVE Propagate(_, _, _)
\* the while loop, entered with improved = True after iteration passes
Propagate(s, community_map, iteration) ==
    IF iteration >= MaxIterations
    THEN {community_map}
    ELSE UNION {IF o[2] THEN Propagate(s, o[1], iteration + 1) ELSE {o[1]} :
                  o \in PassFrom(s, 1, community_map, FALSE)}

\* final_communities without duplicates: the values of communities in the
\* order of its keys
UniqueCommunities(s, community_map, min_group_size) ==
    LET n == Len(s.node_order)
        community(i) == {u \in DOMAIN community_map : community_map[u] = s.node_order[i]}
        Keep(i) == /\ Cardinality(community(i)) >= min_group_size
                   /\ \A j \in 1..(i - 1) : community(j) # community(i)
        kept == SelectSeq([i \in 1..n |-> i], Keep)
    IN [k \in 1..Len(kept) |-> community(kept[k])]

\* find_natural_groups: the states it can leave, one for every outcome of
\* the propagation
find_natural_groups(s, min_group_size) ==
    IF ~s.communities_cache.is_none
    THEN {s}
    ELSE {[ReadAdjacency(s, DOMAIN s.nodes) EXCEPT
             !.communities_cache =
                 [is_none |-> FALSE,
                  value |-> UniqueCommunities(s, community_map, min_group_size)]] :
            community_map \in Propagate(s, [u \in DOMAIN s.nodes |-> u], 0)}

\* find_closest_users with del self.nodes[target_user] for del distances[target_user]
find_closest_users_del_node(s, target_user) ==
    IF target_user \notin DOMAIN s.nodes
    THEN s
    ELSE [ReadAdjacency(s, Reach(s, {target_user})) EXCEPT
            !.nodes = [u \in DOMAIN @ \ {target_user} |-> @[u]],
            !.node_order = SelectSeq(@, LAMBDA u : u # target_user)]

\* find_closest_users without if target_user not in self.nodes: return []
find_closest_users_unguarded(s, target_user) ==
    ReadAdjacency(s, Reach(s, {target_user}))

\* find_closest_users
find_closest_users(s, target_user) ==
    IF target_user \notin DOMAIN s.nodes
    THEN s
    ELSE ReadAdjacency(s, Reach(s, {target_user}))

\* find_non_interacting_close_users: a user dequeued at distance 3 or more is
\* not expanded
find_non_interacting_close_users(s, target_user) ==
    IF target_user \notin DOMAIN s.nodes
    THEN s
    ELSE ReadAdjacency(s, Ball(s, {target_user}, SearchDepth - 1))

----------------------------------------------------------------------------
(* The state machine *)

St == [graph |-> graph, added_vertices |-> added_vertices,
       user_weights |-> user_weights]

SetSt(s) ==
    /\ graph' = s.graph
    /\ added_vertices' = s.added_vertices
    /\ user_weights' = s.user_weights

Soc == [nodes |-> nodes, node_order |-> node_order, edges |-> edges,
        reverse_edges |-> reverse_edges, communities_cache |-> communities_cache]

SetSoc(s) ==
    /\ nodes' = s.nodes
    /\ node_order' = s.node_order
    /\ edges' = s.edges
    /\ reverse_edges' = s.reverse_edges
    /\ communities_cache' = s.communities_cache

socVars == <<nodes, node_order, edges, reverse_edges, communities_cache>>
libVars == <<graph, added_vertices, user_weights>>
\* what no method of the analysis classes writes: the loaded tables, the hash
\* and the GitHubMiner object
inputVars == <<variant, issues, pull_requests, hash_hits, miner>>
testeVars == <<user_interactions, user_degrees>>

\* the locals of find_natural_groups when no call is running: communities
\* (community id -> users), community_map (user -> community id; labels in
\* data_teste.py), improved (changed), iteration (current_iter), visited (how
\* many users the for loop of the pass has visited) and the position at
NoCall == [communities |-> EmptyFn, community_map |-> EmptyFn, improved |-> FALSE,
           iteration |-> 0, visited |-> 0, min_group_size |-> 0, at |-> "idle"]

NoResult == [op |-> "none", arg |-> "", value |-> <<>>]

\* no GitHubMiner has been constructed
NoMiner == [tokens |-> <<>>, requests_per_token |-> 0, current_token_index |-> 0,
            current_token_requests |-> 0, authorization |-> "", attempt |-> 0,
            responses |-> <<>>, rotated_from |-> -1, at |-> "idle"]

Ingest(v, st, row) ==
    IF v = "processor" THEN ProcessorIngest(st, row) ELSE ExplorerIngest(st, row)

\* the order in which one pass over the tables meets the rows
KindRank(k) ==
    CASE k = "issue" -> 1 [] k = "pr" -> 2 [] k = "review" -> 3 [] k = "comment" -> 4

RECURSIVE IngestAll(_, _, _)
IngestAll(v, st, bag) ==
    IF BagToSet(bag) = {}
    THEN st
    ELSE LET e == CHOOSE x \in BagToSet(bag) :
                    \A y \in BagToSet(bag) : KindRank(x.kind) <= KindRank(y.kind)
         IN IngestAll(v, Ingest(v, st, e), bag (-) SetToBag({e}))

\* load_data: the processor and the explorer replace a missing author by the
\* sentinel, SocialGraph.load_data keeps the cell as read
LoadAuthor(v, cell) == IF v = "social" THEN cell ELSE Fillna(cell)

Init ==
    /\ variant \in Variants
    /\ \E ia \in Authors \cup {NaN}, pa \in RawCells :
         /\ issues = [n \in IssueNumbers |-> LoadAuthor(variant, ia)]
         /\ pull_requests = [n \in PrNumbers |-> LoadAuthor(variant, pa)]
    /\ hash_hits \in (IF variant = "social" THEN HashHitSets ELSE {{}})
    /\ graph = NewGraph
    /\ added_vertices = {}
    /\ user_weights = EmptyFn
    /\ nodes = EmptyFn
    /\ node_order = <<>>
    /\ edges = EmptyFn
    /\ reverse_edges = EmptyFn
    /\ communities_cache = NoCache
    /\ user_interactions = EmptyDict
    /\ user_degrees = EmptyFn
    /\ call = NoCall
    /\ miner = NoMiner
    /\ pc = IF variant = "social" THEN "init" ELSE "ingest"
    /\ result = NoResult
    /\ log = EmptyBag
    /\ round = 1

CanIngest == round = 1 /\ BagCardinality(log) < MaxEvents

Step(row) ==
    /\ CanIngest
    /\ SetSt(Ingest(variant, St, row))
    /\ log' = log (+) SetToBag({row})
    /\ result' = NoResult
    /\ UNCHANGED <<inputVars, testeVars, call, socVars, pc, round>>

ProcessorIssueClosures == variant = "processor" /\ \E row \in IssueRows : Step(row)
ProcessorPrMerges == variant = "processor" /\ \E row \in PrRows : Step(row)
ProcessorReviews == variant = "processor" /\ \E row \in ReviewRows : Step(row)
ProcessorComments == variant = "processor" /\ \E row \in CommentRows : Step(row)
ExplorerReviewsBatch == variant = "explorer" /\ \E row \in ReviewRows : Step(row)
ExplorerCommentsBatch == variant = "explorer" /\ \E row \in CommentRows : Step(row)

\* process_interactions / build_interaction_graph run a second time over the
\* same tables, into the same graph
Reingest ==
    /\ variant \in {"processor", "explorer"}
    /\ round = 1
    /\ BagToSet(log) # {}
    /\ SetSt(IngestAll(variant, St, log))
    /\ round' = 2
    /\ result' = NoResult
    /\ UNCHANGED <<inputVars, testeVars, call, socVars, pc, log>>

\* a query of DataExplorer: it returns a value and writes nothing else
ExplorerQuery(op, value) ==
    /\ variant = "explorer"
    /\ result' = [op |-> op, arg |-> "", value |-> value]
    /\ UNCHANGED <<inputVars, testeVars, call, libVars, socVars, pc, log, round>>

CalculateWeightedDegrees ==
    ExplorerQuery("calculate_weighted_degrees", calculate_weighted_degrees(graph))

CalculateUserScores ==
    ExplorerQuery("calculate_user_scores", calculate_user_scores(graph))

\* SocialGraph.build_graph, up to the end of the pull-request loop
BuildGraphBegin ==
    /\ variant = "social" /\ pc = "init"
    /\ SetSoc(build_graph_begin)
    /\ pc' = "comments"
    /\ result' = NoResult
    /\ UNCHANGED <<inputVars, testeVars, call, libVars, log, round>>

SocialStep(row, next_pc) ==
    /\ BagCardinality(log) < MaxEvents
    /\ SetSoc(SocialIngest(Soc, row))
    /\ log' = log (+) SetToBag({row})
    /\ pc' = next_pc
    /\ result' = NoResult
    /\ UNCHANGED <<inputVars, testeVars, call, libVars, round>>

BuildGraphComment ==
    variant = "social" /\ pc = "comments" /\ \E row \in CommentRows : SocialStep(row, "comments")

BuildGraphReview ==
    /\ variant = "social" /\ pc \in {"comments", "reviews"}
    /\ \E row \in ReviewRows : SocialStep(row, "reviews")

\* the end of build_graph: the closure pass
BuildGraphClosures ==
    /\ variant = "social" /\ pc \in {"comments", "reviews"}
    /\ SetSoc(process_closure_interactions(Soc))
    /\ pc' = "done"
    /\ result' = NoResult
    /\ UNCHANGED <<inputVars, testeVars, call, libVars, log, round>>

\* a query of SocialGraph, called once build_graph has returned; s is the
\* object as the query leaves it
SocialQuery(s) ==
    /\ variant = "social" /\ pc = "done"
    /\ SetSoc(s)
    /\ UNCHANGED <<inputVars, testeVars, call, libVars, pc, result, log, round>>

GetMostInfluentialUsers == SocialQuery(get_most_influential_users(Soc))

FindMostFragmentingUser == SocialQuery(find_most_fragmenting_user(Soc))

FindNaturalGroups ==
    \E min_group_size \in MinGroupSizes :
        \E s \in find_natural_groups(Soc, min_group_size) : SocialQuery(s)

\* it reads the keys self.edges already has, and writes nothing
CalculateCommunityConnectivity == SocialQuery(Soc)

FindClosestUsers ==
    \E target_user \in QueryTargets : SocialQuery(find_closest_users(Soc, target_user))

FindNonInteractingCloseUsers ==
    \E target_user \in QueryTargets :
        SocialQuery(find_non_interacting_close_users(Soc, target_user))

Next ==
    \/ BuildGraphBegin
    \/ BuildGraphComment
    \/ BuildGraphReview
    \/ BuildGraphClosures
    \/ ProcessorIssueClosures
    \/ ProcessorPrMerges
    \/ ProcessorReviews
    \/ ProcessorComments
    \/ ExplorerReviewsBatch
    \/ ExplorerCommentsBatch
    \/ Reingest
    \/ CalculateWeightedDegrees
    \/ CalculateUserScores
    \/ GetMostInfluentialUsers
    \/ FindMostFragmentingUser
    \/ FindNaturalGroups
    \/ CalculateCommunityConnectivity
    \/ FindClosestUsers
    \/ FindNonInteractingCloseUsers

Spec == Init /\ [][Next]_vars


----------------------------------------------------------------------------
(* Vocabulary of the properties: the rule table of the ingestion pipeline, *)
(* read off the rows of log, and the weights the graph records             *)

IsEmptyId(x) == x \in {"", NaN, None}
Sentinel(x) == IF IsEmptyId(x) THEN Unknown ELSE x

AllRows == IssueRows \cup PrRows \cup ReviewRows \cup CommentRows
Ingests(row) == log' = log (+) SetToBag({row})

\* total weight the graph records for the ordered pair (s, t)
PairWeight(s, t) ==
    IF variant = "social"
    THEN Get0(Inner(edges, s), t)
    ELSE SumSet(graph.edges, {k \in DOMAIN graph.edges : k[1] = s /\ k[2] = t})

\* sum of the weights of the interactions in which v is source or target
TouchSum(v) ==
    SumSet([t \in Ids |-> PairWeight(v, t)], Ids) + SumSet([u \in Ids |-> PairWeight(u, v)], Ids)

\* author of the issue or pull request a row is about; None when the number
\* the row refers to is not known
RuleAuthor(row) ==
    CASE row.kind = "issue" -> Sentinel(issues[row.number])
      [] row.kind = "pr" -> Sentinel(pull_requests[row.number])
      [] row.kind = "review" ->
           IF row.number \in DOMAIN pull_requests
           THEN Sentinel(pull_requests[row.number]) ELSE None
      [] row.kind = "comment" ->
           IF row.number \in DOMAIN issues THEN Sentinel(issues[row.number])
           ELSE IF row.number \in DOMAIN pull_requests
           THEN Sentinel(pull_requests[row.number]) ELSE None

\* the closer, merger, reviewer or commenter of a row
RuleCounterpart(row) ==
    CASE row.kind = "issue" -> row.closed_by
      [] row.kind = "pr" -> IF row.merged THEN row.merged_by ELSE row.closed_by
      [] OTHER -> Sentinel(row.author)

\* the condition column of the rule table
RuleQualifies(row) ==
    /\ RuleAuthor(row) # None
    /\ row.kind \in {"issue", "pr"} =>
          row.state = "closed" /\ ~IsEmptyId(RuleCounterpart(row))
    /\ RuleCounterpart(row) # RuleAuthor(row)

\* the weight column of the rule table
RuleWeight(row) == IF row.kind \in {"issue", "pr"} THEN 3 ELSE 2

RuleSum(s, t) ==
    SumSet([row \in BagToSet(log) |->
              IF RuleQualifies(row) /\ RuleAuthor(row) = s /\ RuleCounterpart(row) = t
              THEN CopiesIn(row, log) * RuleWeight(row) ELSE 0],
           BagToSet(log))

\* a row the pipeline discards: a self-interaction or an unresolved reference
Discarded(row) ==
    \/ RuleAuthor(row) = None
    \/ Sentinel(RuleCounterpart(row)) = RuleAuthor(row)

\* the step that ingests row moves the weight of (src, tgt) by w and no other
AddsExactly(row, w) ==
    \A s \in Ids, t \in Ids :
        PairWeight(s, t)' = PairWeight(s, t)
            + (IF s = RuleAuthor(row) /\ t = RuleCounterpart(row) THEN w ELSE 0)

NoDup(seq) == \A i \in 1..Len(seq), j \in 1..Len(seq) : seq[i] = seq[j] => i = j
IsPrefix(a, b) == Len(a) <= Len(b) /\ \A i \in 1..Len(a) : a[i] = b[i]

----------------------------------------------------------------------------
(* Properties *)

\* C1: after any sequence of ingested events the graph holds no edge whose
\* source equals its target and no edge with an empty endpoint.
C1_NoSelfLoopNoEmptyEndpoint ==
    /\ \A k \in DOMAIN graph.edges :
          k[1] # k[2] /\ ~IsEmptyId(k[1]) /\ ~IsEmptyId(k[2])
    /\ \A p \in DOMAIN graph.matrix :
          graph.matrix[p] > 0 =>
             /\ p[1] # p[2]
             /\ ~IsEmptyId(graph.vertices[p[1]]) /\ ~IsEmptyId(graph.vertices[p[2]])
    /\ \A u \in DOMAIN edges : \A v \in DOMAIN edges[u] :
          u # v /\ ~IsEmptyId(u) /\ ~IsEmptyId(v)
    /\ \A u \in DOMAIN reverse_edges : \A v \in DOMAIN reverse_edges[u] :
          u # v /\ ~IsEmptyId(u) /\ ~IsEmptyId(v)

\* a self-interaction and a row with an empty author were ingested, and the
\* graph has an edge
C1_Witness ==
    /\ variant = "processor"
    /\ \E row \in BagToSet(log) : RuleAuthor(row) # None /\ Discarded(row)
    /\ \E row \in BagToSet(log) : row.author = NaN
    /\ DOMAIN graph.edges # {}

\* C2: the weight recorded for every ordered pair equals the sum of the
\* rule-table weights of the qualifying events between them, and a second
\* ingestion of the same rows doubles it.
C2_WeightIsRuleSum ==
    \A s \in Ids, t \in Ids : PairWeight(s, t) = round * RuleSum(s, t)


\* activity weight of a vertex: user_weights of the processor, nodes[v]['weight']
\* of SocialGraph
ActivityWeight(v) == IF variant = "social" THEN Get0(nodes, v) ELSE Get0(user_weights, v)

AuthoredCount(v) ==
    IF pc = "init" THEN 0
    ELSE Cardinality({n \in DOMAIN issue_authors : issue_authors[n] = v})
         + Cardinality({n \in DOMAIN pr_authors : pr_authors[n] = v})
         + SumSet([row \in BagToSet(log) |->
                     IF row.author = v /\ ~IsEmptyId(v) THEN CopiesIn(row, log) ELSE 0],
                  BagToSet(log))

\* number of _add_edge calls behind the weight of (a, b): comments and reviews
\* add 2 each, the closure pass adds 3 at most once per ordered pair
IncrementsOf(a, b) ==
    LET w == PairWeight(a, b)
    IN IF w % 2 = 1 THEN (w - 3) \div 2 + 1 ELSE w \div 2

C4_ClosureRule ==
    [][/\ \A row \in IssueRows \cup PrRows :
             Ingests(row) =>
                AddsExactly(row, IF RuleQualifies(row) THEN 3 ELSE 0)
       /\ (variant = "social" /\ pc' = "done" /\ pc # "done") =>
             \A s \in Ids, t \in Ids : PairWeight(s, t)' = PairWeight(s, t)]_vars

\* C5: a review on a known pull request whose author differs from the
\* reviewer adds exactly 2 to the edge PR author -> reviewer, and to no other.
C5_ReviewRule ==
    [][\A row \in ReviewRows :
          (Ingests(row) /\ RuleQualifies(row)) => AddsExactly(row, 2)]_vars

\* C6: a comment on a known issue or pull request whose author differs from
\* the commenter adds exactly 2 to the edge thread author -> commenter, and
\* to no other.
C6_CommentRule ==
    [][\A row \in CommentRows :
          (Ingests(row) /\ RuleQualifies(row)) => AddsExactly(row, 2)]_vars

\* C7: a discarded event (a self-interaction, or a comment or review on an
\* unknown number) leaves the whole graph unchanged.
C7_DiscardedLeavesGraphUnchanged ==
    [][\A row \in AllRows :
          (Ingests(row) /\ Discarded(row)) => UNCHANGED <<libVars, socVars>>]_vars

\* C9: during ingestion an identity is created at most once and never
\* removed, and no activity weight decreases from one step to the next.
C9_VerticesOnlyGrow ==
    [][/\ IsPrefix(graph.vertices, graph.vertices') /\ NoDup(graph.vertices')
       /\ \A v \in DOMAIN user_weights :
             v \in DOMAIN user_weights' /\ user_weights'[v] >= user_weights[v]
       /\ IsPrefix(node_order, node_order') /\ NoDup(node_order')
       /\ \A v \in DOMAIN nodes : v \in DOMAIN nodes' /\ nodes'[v] >= nodes[v]]_vars

\* an identity referenced by several events: it is one vertex, its weight grew
C9_Witness ==
    /\ variant = "processor"
    /\ \E v \in DOMAIN user_weights : user_weights[v] >= 5
    /\ Len(graph.vertices) = 3

----------------------------------------------------------------------------
(* Weighted degree *)

\* sum of the weights of the edges of the explorer's graph that leave v
OutWeightSum(v) == SumSet(graph.edges, {k \in DOMAIN graph.edges : k[1] = v})
\* sum of the weights of the edges of the explorer's graph that enter v
InWeightSum(v) == SumSet(graph.edges, {k \in DOMAIN graph.edges : k[2] = v})

\* C10: calculate_weighted_degrees returns, for every vertex v (and for no
\* other key), the sum of the weights of all edges leaving v plus the sum of
\* the weights of all edges entering v; calculate_user_scores gives the same
\* number to every user it lists, and the users it leaves out touch no edge.
C10_WeightedDegreeIsOutPlusIn ==
    /\ result.op = "calculate_weighted_degrees" =>
          /\ DOMAIN result.value = SeqToSet(graph.vertices)
          /\ \A v \in DOMAIN result.value :
                result.value[v] = OutWeightSum(v) + InWeightSum(v)
    /\ result.op = "calculate_user_scores" =>
          /\ DOMAIN result.value \subseteq SeqToSet(graph.vertices)
          /\ \A v \in Ids :
                Get0(result.value, v) = OutWeightSum(v) + InWeightSum(v)

\* calculate_weighted_degrees has answered on a graph in which a vertex has
\* edges in both directions, one of them of accumulated weight
C10_Witness ==
    /\ result.op = "calculate_weighted_degrees"
    /\ \E v \in DOMAIN result.value :
          /\ OutWeightSum(v) >= 2
          /\ InWeightSum(v) >= 1
          /\ result.value[v] = OutWeightSum(v) + InWeightSum(v)

----------------------------------------------------------------------------
(* Queries *)

\* the weighted edge set a dict of dicts records: the dict without the keys
\* that hold no edge
WeightedEdges(d) == [u \in {x \in DOMAIN d : DOMAIN d[x] # {}} |-> d[u]]

\* a step taken by a query: SocialGraph is queried once build_graph has
\* returned, and a query of DataExplorer leaves its answer in result
QueryStep ==
    \/ variant = "social" /\ pc = "done"
    \/ result'.op # "none"

\* C8: once ingestion has completed, every analytic query, after any other
\* queries and in any order, leaves the vertex set, the edge set, every edge
\* weight and every vertex activity weight unchanged (nodes maps the vertices
\* of SocialGraph to their activity weight; graph, added_vertices and
\* user_weights are the graph of DataExplorer).
C8_QueriesLeaveGraphUnchanged ==
    [][QueryStep =>
         /\ nodes' = nodes
         /\ node_order' = node_order
         /\ WeightedEdges(edges)' = WeightedEdges(edges)
         /\ WeightedEdges(reverse_edges)' = WeightedEdges(reverse_edges)
         /\ UNCHANGED libVars]_vars

\* queries have run on a graph of three users with an accumulated edge: a
\* read has created a key of self.edges that holds no edge, and
\* find_natural_groups has filled its cache
C8_Witness ==
    /\ variant = "social" /\ pc = "done"
    /\ Cardinality(DOMAIN nodes) >= 3
    /\ \E s \in Ids, t \in Ids : PairWeight(s, t) >= 4
    /\ \E u \in DOMAIN edges : DOMAIN edges[u] = {}
    /\ ~communities_cache.is_none
    /\ Len(communities_cache.value) >= 1

----------------------------------------------------------------------------
(* The queries on a built graph.  The tables are larger than in Spec and a *)
(* table is ingested in one step, by the whole of build_interaction_graph  *)
(* or build_graph; the queries then return their answer in result.  A      *)
(* float is the record [num, den] of a fraction.                           *)

\* the author of issue n is QueryAuthors[n]; pull request 6 is alice's
QueryAuthors == <<"alice", "bob", "carol", "dave", "erin">>
QueryIssues == [n \in 1..Len(QueryAuthors) |-> QueryAuthors[n]]
QueryPullRequests == (6 :> "alice")

Comment(n, a) == Row("comment", n, a, "", FALSE, None, None)
Review(n, a) == Row("review", n, a, "APPROVED", FALSE, None, None)

\* the rows a comments / reviews table of DataExplorer is made of; the
\* comment of a on issue n gives the edge QueryAuthors[n] -> a
ExplorerTableRows ==
    {Comment(1, "bob"), Comment(2, "alice"), Comment(2, "carol"), Comment(3, "dave"),
     Comment(4, "alice"), Comment(4, "erin"), Review(6, "bob")}

Fraction(num, den) == [num |-> num, den |-> den]

\* calculate_graph_density with max_possible_edges = n * (n - 1) / 2
calculate_graph_density_undirected(g) ==
    LET n == Len(g.vertices)
        total_edges == Cardinality({p \in (1..n) \X (1..n) : g.matrix[p] > 0})
    IN IF n <= 1 THEN Fraction(0, 1) ELSE Fraction(2 * total_edges, n * (n - 1))

\* calculate_graph_density
calculate_graph_density(g) ==
    LET n == Len(g.vertices)
        total_edges == Cardinality({p \in (1..n) \X (1..n) : g.matrix[p] > 0})
    IN IF n <= 1 THEN Fraction(0, 1) ELSE Fraction(total_edges, n * (n - 1))

\* the values of n / top_n the queries are called with
TopNs == {2, 5}

\* sorted(items, key = score, reverse = True)[:n] and heapq.nlargest(n, items,
\* key = score): both are stable; before is the set of the pairs <<v, u>> with
\* "v has the greater score, or the same score and an earlier place in order"
Ranking(order, before, n) ==
    LET rank(u) == 1 + Cardinality({v \in SeqToSet(order) : <<v, u>> \in before})
        m == IF n < Len(order) THEN n ELSE Len(order)
    IN [i \in 1..m |-> CHOOSE u \in SeqToSet(order) : rank(u) = i]

\* identify_top_weighted_vertices: weighted_degrees has its keys in the order
\* of graph.vertices
identify_top_weighted_vertices(g, top_n) ==
    LET weighted_degrees == calculate_weighted_degrees(g)
        order == g.vertices
        Before(v, u) ==
            \/ weighted_degrees[v] > weighted_degrees[u]
            \/ /\ weighted_degrees[v] = weighted_degrees[u]
               /\ IndexOf(order, v) < IndexOf(order, u)
        top == Ranking(order, {p \in SeqToSet(order) \X SeqToSet(order) : Before(p[1], p[2])}, top_n)
    IN [i \in DOMAIN top |-> <<top[i], weighted_degrees[top[i]]>>]

----------------------------------------------------------------------------
(* The double-precision arithmetic of influence_score.  Every value that   *)
(* occurs is a double x with 10 * x = k + E * 2^-57 for integers k and E,  *)
(* written [k, E]: k tenths is the exact value of the expression and E the *)
(* rounding error so far.  The literals are                                *)
(*   0.1 = [1, 8]   0.2 = [2, 16]   0.3 = [3, -16]   0.4 = [4, 32]         *)
(* and a product or a sum is rounded to the nearest double, ties to even.  *)

Float(k, E) == [k |-> k, E |-> E]

\* round to nearest, ties to even.  e is the exponent of the binade
\* 2^e <= x < 2^(e+1) of x = (k + E * 2^-57) / 10; the doubles of the binade
\* are 10 * U units of 2^-57 / 10 apart, U = 2^(e + 5); P10 and P20 are 2^t
\* modulo 10 and modulo 20
RoundToDouble(k, E) ==
    LET below(b) == k < b \/ (k = b /\ E < 0)
        e == CASE k < 2 -> -4
               [] k >= 2 /\ k < 3 -> -3
               [] k >= 3 /\ below(5) -> -2
               [] ~below(5) /\ below(10) -> -1
               [] ~below(10) /\ below(20) -> 0
               [] ~below(20) /\ below(40) -> 1
               [] ~below(40) /\ below(80) -> 2
               [] ~below(80) /\ below(160) -> 3
               [] ~below(160) -> 4
        P10(t) == IF t = 0 THEN 1 ELSE <<6, 2, 4, 8>>[(t % 4) + 1]
        P20(t) == IF t < 2 THEN <<1, 2>>[t + 1] ELSE <<16, 12, 4, 8>>[(t % 4) + 1]
        U == 2 ^ (e + 5)
        r == (U * ((k * P10(52 - e)) % 10) + E) % (10 * U)
        even == ((U * ((k * P20(52 - e)) % 20) + E - r) % (20 * U)) = 0
    IN IF k = 0 THEN Float(0, 0)
       ELSE IF r < 5 * U \/ (r = 5 * U /\ even)
       THEN Float(k, E - r)
       ELSE Float(k, E - r + 10 * U)

\* count * 0.c for an int count: the literal 0.c has the error LiteralError
Times(count, c) ==
    LET LiteralError == CASE c = 1 -> 8 [] c = 2 -> 16 [] c = 3 -> -16 [] c = 4 -> 32
    IN RoundToDouble(count * c, count * LiteralError)
\* a + b
Plus(a, b) == RoundToDouble(a.k + b.k, a.E + b.E)
\* a > b
Greater(a, b) == a.k > b.k \/ (a.k = b.k /\ a.E > b.E)

\* influence_score of get_most_influential_users
influence_score(s, user) ==
    LET out_degree == Cardinality(DOMAIN Inner(s.edges, user))
        in_degree == Cardinality(DOMAIN Inner(s.reverse_edges, user))
        total_degree == out_degree + in_degree
        out_weight == SumSet(Inner(s.edges, user), DOMAIN Inner(s.edges, user))
        in_weight == SumSet(Inner(s.reverse_edges, user), DOMAIN Inner(s.reverse_edges, user))
        interaction_weight == s.nodes[user]
    IN Plus(Plus(Plus(Times(total_degree, 3), Times(out_weight, 4)), Times(in_weight, 2)),
            Times(interaction_weight, 1))

\* the list get_most_influential_users returns; influence_scores is the dict
\* of the scores, as the set of its items
top_users(s, n) ==
    LET order == s.node_order
        influence_scores == {<<user, influence_score(s, user)>> : user \in DOMAIN s.nodes}
        score(user) == (CHOOSE item \in influence_scores : item[1] = user)[2]
        Before(v, u) ==
            \/ Greater(score(v), score(u))
            \/ score(v) = score(u) /\ IndexOf(order, v) < IndexOf(order, u)
        top == Ranking(order, {p \in SeqToSet(order) \X SeqToSet(order) : Before(p[1], p[2])}, n)
    IN [i \in DOMAIN top |-> <<top[i], score(top[i])>>]

\* calculate_community_connectivity: (total_existing / total_possible) * 100
calculate_community_connectivity(s) ==
    LET n == Cardinality(DOMAIN s.nodes)
        total_existing == SumSet([user \in DOMAIN s.edges |-> Cardinality(DOMAIN s.edges[user])],
                                 DOMAIN s.edges)
    IN IF n < 2 THEN Fraction(0, 1) ELSE Fraction(100 * total_existing, n * (n - 1))

\* transpose built like adj: transpose[i] holds the successors of i
transpose_as_adj(g) ==
    LET n == Len(g.vertices)
    IN [i \in 1..n |-> SelectSeq([j \in 1..n |-> j], LAMBDA j : g.matrix[<<i, j>>] > 0)]

\* the list transpose of identify_natural_groups: transpose[j] holds the i
\* with matrix[i][j] > 0, in increasing order
transpose(g) ==
    LET n == Len(g.vertices)
    IN [j \in 1..n |-> SelectSeq([i \in 1..n |-> i], LAMBDA i : g.matrix[<<i, j>>] > 0)]

\* identify_natural_groups (Kosaraju).  A search state is [visited, out]: the
\* set of visited indices and the list the search appends to, finish_stack
\* for dfs and group for reverse_dfs.
identify_natural_groups(g) ==
    LET ids == g.vertices
        n == Len(ids)
        adj == [i \in 1..n |-> SelectSeq([j \in 1..n |-> j], LAMBDA j : g.matrix[<<i, j>>] > 0)]
        RECURSIVE dfs(_, _), dfs_loop(_, _, _)
        dfs(v, st) ==
            LET st1 == dfs_loop(v, 1, [st EXCEPT !.visited = @ \cup {v}])
            IN [st1 EXCEPT !.out = Append(@, v)]
        dfs_loop(v, k, st) ==
            IF k > Len(adj[v]) THEN st
            ELSE dfs_loop(v, k + 1,
                          IF adj[v][k] \notin st.visited THEN dfs(adj[v][k], st) ELSE st)
        RECURSIVE reverse_dfs(_, _), reverse_loop(_, _, _)
        reverse_dfs(v, st) ==
            reverse_loop(v, 1, [visited |-> st.visited \cup {v}, out |-> Append(st.out, ids[v])])
        reverse_loop(v, k, st) ==
            IF k > Len(transpose(g)[v]) THEN st
            ELSE reverse_loop(v, k + 1,
                              IF transpose(g)[v][k] \notin st.visited
                              THEN reverse_dfs(transpose(g)[v][k], st) ELSE st)
        RECURSIVE first_pass(_, _)
        \* for i in range(n): if not visited[i]: dfs(i)
        first_pass(i, st) ==
            IF i > n THEN st
            ELSE first_pass(i + 1, IF i \notin st.visited THEN dfs(i, st) ELSE st)
        finish_stack == first_pass(1, [visited |-> {}, out |-> <<>>]).out
        RECURSIVE second_pass(_, _, _)
        \* while finish_stack: v = finish_stack.pop() ...
        second_pass(k, visited, groups) ==
            IF k = 0 THEN groups
            ELSE LET v == finish_stack[k]
                     st == reverse_dfs(v, [visited |-> visited, out |-> <<>>])
                 IN IF v \in visited
                    THEN second_pass(k - 1, visited, groups)
                    ELSE second_pass(k - 1, st.visited, Append(groups, st.out))
    IN second_pass(Len(finish_stack), {}, <<>>)

\* calculate_group_connection_level counting a pair joined in either direction
calculate_group_connection_level_either(g, group) ==
    LET ids == g.vertices
        n == Len(group)
        real_connections ==
            Cardinality({p \in (1..n) \X (1..n) :
                           /\ p[1] # p[2]
                           /\ \/ g.matrix[<<IndexOf(ids, group[p[1]]), IndexOf(ids, group[p[2]])>>] > 0
                              \/ g.matrix[<<IndexOf(ids, group[p[2]]), IndexOf(ids, group[p[1]])>>] > 0})
    IN IF n <= 1 THEN Fraction(100, 1) ELSE Fraction(100 * real_connections, n * (n - 1))

\* calculate_group_connection_level: (real_connections / possible_connections) * 100
calculate_group_connection_level(g, group) ==
    LET ids == g.vertices
        n == Len(group)
        real_connections ==
            Cardinality({p \in (1..n) \X (1..n) :
                           /\ p[1] # p[2]
                           /\ g.matrix[<<IndexOf(ids, group[p[1]]), IndexOf(ids, group[p[2]])>>] > 0})
    IN IF n <= 1 THEN Fraction(100, 1) ELSE Fraction(100 * real_connections, n * (n - 1))

\* the groups the level is asked for: the natural groups, as generate_report
\* does, and the list of all vertices
GroupsOf(g) == SeqToSet(identify_natural_groups(g)) \cup {g.vertices}

----------------------------------------------------------------------------
(* DataExplorer of src/data_teste.py.  Its state is the record              *)
(* [user_interactions, user_degrees]; user_interactions is a dict of dicts  *)
(* in insertion order, undirected: every interaction is entered both ways.  *)

\* issue or pull request n has the assignee a
Assignee(n, a) == Row("assignee", n, a, "", FALSE, None, None)

\* the four lines every loop of build_interaction_graph ends with:
\* interactions is a defaultdict(dict), so interactions[a] creates the key a
Interact(t, a, b) ==
    LET OneWay(interactions, x, y) ==
            LET inner == DictGet(interactions, x, EmptyDict)
            IN DictSet(interactions, x, DictSet(inner, y, DictGet(inner, y, 0) + 1))
    IN [user_interactions |-> OneWay(OneWay(t.user_interactions, a, b), b, a),
        user_degrees |-> Bump(Bump(t.user_degrees, a, 1), b, 1)]

\* one row of _process_issues / _process_pull_requests (one assignee),
\* _process_comments or _process_reviews
TesteIngest(t, row) ==
    LET author == row.author
        n == row.number
        issue_author == IF n \in DOMAIN issues THEN issues[n] ELSE None
        pr_author == IF n \in DOMAIN pull_requests THEN pull_requests[n] ELSE None
    IN CASE row.kind = "assignee" ->
                Interact(t, IF n \in DOMAIN issues THEN issue_author ELSE pr_author, author)
         [] row.kind = "comment" ->
                IF issue_author # None /\ Truthy(issue_author) /\ issue_author # author
                THEN Interact(t, author, issue_author) ELSE t
         [] row.kind = "review" ->
                IF pr_author # None /\ Truthy(pr_author) /\ pr_author # author
                THEN Interact(t, author, pr_author) ELSE t
         [] OTHER -> t

RECURSIVE TesteIngestTable(_, _, _)
TesteIngestTable(t, table, keep) ==
    IF keep = {} THEN t
    ELSE LET i == CHOOSE m \in keep : \A k \in keep : m <= k
         IN TesteIngestTable(TesteIngest(t, table[i]), table, keep \ {i})

\* build_interaction_graph of data_teste.py: both dicts start empty
teste_build_interaction_graph(table, keep) ==
    TesteIngestTable([user_interactions |-> EmptyDict, user_degrees |-> EmptyFn], table, keep)

\* sorted(self.user_interactions.keys(), key=lambda x: -len(...)): stable
teste_nodes_ordered(ui) ==
    LET keys == ui.keys
        degree(x) == Len(ui.value[x].keys)
        MoreNeighbours(v, u) ==
            \/ degree(v) > degree(u)
            \/ degree(v) = degree(u) /\ IndexOf(keys, v) < IndexOf(keys, u)
    IN Ranking(keys, {p \in SeqToSet(keys) \X SeqToSet(keys) : MoreNeighbours(p[1], p[2])},
               Len(keys))

\* neighbor_labels.most_common(1)[0][0]: the first label of greatest count
teste_most_common(ui, node, labels) ==
    LET nb == ui.value[node].keys
        count(l) == Cardinality({k \in DOMAIN nb : labels[nb[k]] = l})
        first(l) == CHOOSE k \in DOMAIN nb :
                        /\ labels[nb[k]] = l
                        /\ \A j \in 1..(k - 1) : labels[nb[j]] # l
        seen == {labels[nb[k]] : k \in DOMAIN nb}
    IN CHOOSE l \in seen :
          \A m \in seen \ {l} : \/ count(l) > count(m)
                                \/ count(l) = count(m) /\ first(l) < first(m)

\* the label a node has once the for loop has visited it
teste_visit(ui, node, labels) ==
    IF ui.value[node].keys = <<>> THEN labels[node] ELSE teste_most_common(ui, node, labels)

\* groups[group_id].append(user) for user, group_id in labels.items(): the
\* dict group id -> list of users, as the sequence of its items
teste_groups(ui, labels) ==
    LET keys == ui.keys
        members(id) == SelectSeq(keys, LAMBDA u : labels[u] = id)
        firsts == SelectSeq(keys, LAMBDA u : members(labels[u])[1] = u)
    IN [k \in DOMAIN firsts |-> <<labels[firsts[k]], members(labels[firsts[k]])>>]

\* find_natural_groups of data_teste.py
teste_find_natural_groups(ui) ==
    LET keys == ui.keys
        max_iter == 10
        nodes_ordered == teste_nodes_ordered(ui)
        RECURSIVE pass(_, _, _)
        pass(i, labels, changed) ==
            IF i > Len(nodes_ordered) THEN <<labels, changed>>
            ELSE LET node == nodes_ordered[i]
                     label == teste_visit(ui, node, labels)
                 IN pass(i + 1, [u \in DOMAIN labels |-> IF u = node THEN label ELSE labels[u]],
                         changed \/ label # labels[node])
        RECURSIVE while(_, _)
        while(labels, current_iter) ==
            IF current_iter >= max_iter THEN labels
            ELSE LET o == pass(1, labels, FALSE)
                 IN IF o[2] THEN while(o[1], current_iter + 1) ELSE o[1]
    IN teste_groups(ui, while([u \in SeqToSet(keys) |-> IndexOf(keys, u) - 1], 0))

\* the identities a query is asked about: the authors, and one that is in no table
QueryIds == SeqToSet(QueryAuthors) \cup {Unknown}

\* get_total_neighbors without the loop over the incoming edges
get_total_neighbors_out_only(st, user_id) ==
    LET ids == st.graph.vertices
        n == Len(ids)
        i == IndexOf(ids, user_id)
        neighbors == {ids[j] : j \in {k \in 1..n : st.graph.matrix[<<i, k>>] > 0}}
    IN IF user_id \notin st.added_vertices \/ user_id \notin SeqToSet(ids)
       THEN 0
       ELSE Cardinality(neighbors \ {user_id})

\* get_total_neighbors
get_total_neighbors(st, user_id) ==
    LET ids == st.graph.vertices
        n == Len(ids)
        i == LastIndexOf(ids, user_id)
        neighbors == {ids[j] : j \in {k \in 1..n : st.graph.matrix[<<i, k>>] > 0}}
                     \cup {ids[j] : j \in {k \in 1..n : st.graph.matrix[<<k, i>>] > 0}}
    IN IF user_id \notin st.added_vertices \/ user_id \notin SeqToSet(ids)
       THEN 0
       ELSE Cardinality(neighbors \ {user_id})

\* the breadth-first search of get_total_indirect_neighbors: a vertex taken
\* from the queue at depth max_depth or more is not expanded; the answer is
\* the number of vertices of level 2 or 3
IndirectNeighbors(st, user_id, max_depth) ==
    LET ids == st.graph.vertices
        n == Len(ids)
        start == LastIndexOf(ids, user_id)
        joined(a, b) == st.graph.matrix[<<a, b>>] > 0 \/ st.graph.matrix[<<b, a>>] > 0
        RECURSIVE scan(_, _, _, _, _)
        \* for neighbor in range(n), from neighbor on
        scan(current, depth, neighbor, level, queue) ==
            IF neighbor > n THEN <<level, queue>>
            ELSE IF joined(current, neighbor) /\ neighbor \notin DOMAIN level
            THEN scan(current, depth, neighbor + 1, (neighbor :> depth + 1) @@ level,
                      Append(queue, <<neighbor, depth + 1>>))
            ELSE scan(current, depth, neighbor + 1, level, queue)
        RECURSIVE while(_, _)
        while(level, queue) ==
            IF queue = <<>> THEN level
            ELSE LET current == Head(queue)[1]
                     depth == Head(queue)[2]
                     o == scan(current, depth, 1, level, Tail(queue))
                 IN IF depth >= max_depth THEN while(level, Tail(queue))
                    ELSE while(o[1], o[2])
        level == while((start :> 0), <<<<start, 0>>>>)
        indirect_neighbors == {ids[node] : node \in {m \in DOMAIN level : level[m] \in {2, 3}}}
    IN IF user_id \notin st.added_vertices \/ user_id \notin SeqToSet(ids)
       THEN 0
       ELSE Cardinality(indirect_neighbors)

\* get_total_indirect_neighbors with if depth >= 2: continue
get_total_indirect_neighbors_depth_2(st, user_id) == IndirectNeighbors(st, user_id, 2)

\* get_total_indirect_neighbors: if depth >= 3: continue
get_total_indirect_neighbors(st, user_id) == IndirectNeighbors(st, user_id, 3)

----------------------------------------------------------------------------
(* The breadth-first searches of find_closest_users and of the              *)
(* non-interacting variants.  distances is a dict: its keys are kept in the *)
(* order of discovery.                                                      *)

\* the orders in which a for loop can meet the elements of a Python set
Perms(S) == {p \in [1..Cardinality(S) -> S] : \A i, j \in DOMAIN p : i # j => p[i] # p[j]}

\* all_neighbors = set(self.edges[current].keys()) | set(self.reverse_edges[
\* current].keys()), for every current, with the orders a loop can take it in
SetOrders(s) == [current \in DOMAIN s.nodes |-> Perms(Neighbors(s, current))]

\* while queue: current = queue.popleft(); for neighbor in ...: if neighbor
\* not in distances: ...  all_neighbors[current] is the set of the orders in
\* which the loop can meet the neighbours of current; with limited, a user
\* taken from the queue at distance SearchDepth or more is skipped.  The
\* value is the set of the dicts distances the search can end with, as
\* records [order, distance].
BreadthFirst(start, all_neighbors, limited) ==
    LET Met(current, distance) ==
            {SelectSeq(for_neighbor, LAMBDA neighbor : neighbor \notin DOMAIN distance) :
                for_neighbor \in all_neighbors[current]}
        RECURSIVE while(_, _, _)
        while(queue, order, distance) ==
            IF queue = <<>> THEN {[order |-> order, distance |-> distance]}
            ELSE LET current == Head(queue)
                     current_distance == distance[current]
                 IN IF limited /\ current_distance >= SearchDepth
                    THEN while(Tail(queue), order, distance)
                    ELSE UNION {while(Tail(queue) \o met, order \o met,
                                      [u \in SeqToSet(met) |-> current_distance + 1] @@ distance) :
                                  met \in Met(current, distance)}
    IN while(<<start>>, <<start>>, (start :> 0))

\* sorted(items, key = distance)[:n] and heapq.nsmallest(n, items, key =
\* distance) over the entries of d whose keys are in kept
Nearest(d, kept, n) ==
    LET order == SelectSeq(d.order, LAMBDA user : user \in kept)
        Before(v, u) ==
            \/ d.distance[v] < d.distance[u]
            \/ d.distance[v] = d.distance[u] /\ IndexOf(order, v) < IndexOf(order, u)
        top == Ranking(order, {p \in SeqToSet(order) \X SeqToSet(order) : Before(p[1], p[2])}, n)
    IN [i \in DOMAIN top |-> <<top[i], d.distance[top[i]]>>]

\* closest_users without del distances[target_user]
closest_users_with_target(s, target_user, n) ==
    IF target_user \notin DOMAIN s.nodes THEN {<<>>}
    ELSE {Nearest(d, DOMAIN d.distance, n) :
             d \in BreadthFirst(target_user, SetOrders(s), FALSE)}

\* the lists find_closest_users of SocialGraph can return: all_neighbors is
\* a set of strings
closest_users(s, target_user, n) ==
    IF target_user \notin DOMAIN s.nodes THEN {<<>>}
    ELSE {Nearest(d, DOMAIN d.distance \ {target_user}, n) :
             d \in BreadthFirst(target_user, SetOrders(s), FALSE)}

\* find_closest_users of data_teste.py
teste_find_closest_users(ui, user, top_n) ==
    LET all_neighbors == [current \in DOMAIN ui.value |-> {ui.value[current].keys}]
        d == CHOOSE x \in BreadthFirst(user, all_neighbors, FALSE) : TRUE
    IN IF user \notin DOMAIN ui.value THEN <<>>
       ELSE Nearest(d, DOMAIN d.distance \ {user}, top_n)

\* the lists find_non_interacting_close_users of SocialGraph can return: the
\* search skips a user taken from the queue at distance 3 or more
non_interacting(s, target_user, n) ==
    LET direct_connections == Neighbors(s, target_user)
        non_interacting_users(d) ==
            {user \in DOMAIN d.distance :
                user # target_user /\ user \notin direct_connections /\ d.distance[user] > 1}
    IN IF target_user \notin DOMAIN s.nodes THEN {<<>>}
       ELSE {Nearest(d, non_interacting_users(d), n) :
                d \in BreadthFirst(target_user, SetOrders(s), TRUE)}

\* find_non_interacting_closest of data_teste.py
teste_find_non_interacting_closest(ui, user, top_n) ==
    IF user \notin DOMAIN ui.value THEN <<>>
    ELSE LET direct_neighbors == SeqToSet(ui.value[user].keys)
             closest == teste_find_closest_users(ui, user, top_n + Cardinality(direct_neighbors))
             non_interacting_list == SelectSeq(closest, LAMBDA item : item[1] \notin direct_neighbors)
         IN SubSeq(non_interacting_list, 1,
                   IF Len(non_interacting_list) < top_n THEN Len(non_interacting_list) ELSE top_n)

----------------------------------------------------------------------------
(* SpecQueries *)

\* the rows a comments / reviews table of SocialGraph is made of, in the
\* order of the table; the comment of a on issue n gives the edge
\* a -> QueryAuthors[n]
SocialTable ==
    <<Comment(2, "alice"), Comment(2, "carol"), Comment(3, "bob"), Comment(4, "carol"),
      Comment(5, "dave")>>

\* the closure pairs the hash selects
QueryHashHitSets == {{}, {<<"dave", "alice">>}}

RECURSIVE IngestTable(_, _, _)
\* the loops over comments_df and reviews_df, for the rows keep of table
IngestTable(s, table, keep) ==
    IF keep = {} THEN s
    ELSE LET i == CHOOSE m \in keep : \A k \in keep : m <= k
         IN IngestTable(SocialIngest(s, table[i]), table, keep \ {i})

\* build_graph
build_graph(table, keep) ==
    process_closure_interactions(IngestTable(build_graph_begin, table, keep))

InitQueries ==
    /\ variant \in {"explorer", "social", "teste"}
    /\ issues = QueryIssues
    /\ pull_requests = QueryPullRequests
    /\ hash_hits \in (IF variant = "social" THEN QueryHashHitSets ELSE {{}})
    /\ graph = NewGraph
    /\ added_vertices = {}
    /\ user_weights = EmptyFn
    /\ nodes = EmptyFn
    /\ node_order = <<>>
    /\ edges = EmptyFn
    /\ reverse_edges = EmptyFn
    /\ communities_cache = NoCache
    /\ user_interactions = EmptyDict
    /\ user_degrees = EmptyFn
    /\ call = NoCall
    /\ miner = NoMiner
    /\ pc = IF variant = "social" THEN "init" ELSE "ingest"
    /\ result = NoResult
    /\ log = EmptyBag
    /\ round = 1

\* build_interaction_graph of DataExplorer over a reviews and a comments table
BuildInteractionGraph ==
    /\ variant = "explorer" /\ pc = "ingest"
    /\ \E rows \in SUBSET ExplorerTableRows :
          /\ SetSt(IngestAll("explorer", St, SetToBag(rows)))
          /\ log' = SetToBag(rows)
    /\ pc' = "done"
    /\ result' = NoResult
    /\ UNCHANGED <<inputVars, testeVars, call, socVars, round>>

\* build_graph of SocialGraph over a comments and a reviews table
BuildGraph ==
    /\ variant = "social" /\ pc = "init"
    /\ \E keep \in SUBSET DOMAIN SocialTable :
          /\ SetSoc(build_graph(SocialTable, keep))
          /\ log' = SetToBag({SocialTable[i] : i \in keep})
    /\ pc' = "done"
    /\ result' = NoResult
    /\ UNCHANGED <<inputVars, testeVars, call, libVars, round>>

\* a query of DataExplorer with an argument
ExplorerQueryOf(op, arg, value) ==
    /\ variant = "explorer"
    /\ result' = [op |-> op, arg |-> arg, value |-> value]
    /\ UNCHANGED <<inputVars, testeVars, call, libVars, socVars, pc, log, round>>

\* a query of SocialGraph with its argument and its answer; s is the object
\* as the query leaves it
SocialQueryOf(op, arg, value, s) ==
    /\ variant = "social" /\ pc = "done"
    /\ SetSoc(s)
    /\ result' = [op |-> op, arg |-> arg, value |-> value]
    /\ UNCHANGED <<inputVars, testeVars, call, libVars, pc, log, round>>

CalculateGraphDensity ==
    ExplorerQuery("calculate_graph_density", calculate_graph_density(graph))

IdentifyTopWeightedVertices ==
    \E top_n \in TopNs :
        ExplorerQueryOf("identify_top_weighted_vertices", top_n,
                        identify_top_weighted_vertices(graph, top_n))

GetMostInfluentialUsersCall ==
    \E n \in TopNs :
        SocialQueryOf("get_most_influential_users", n,
                      IF DOMAIN nodes = {} THEN <<>> ELSE top_users(Soc, n),
                      get_most_influential_users(Soc))

CalculateCommunityConnectivityCall ==
    SocialQueryOf("calculate_community_connectivity", "",
                  calculate_community_connectivity(Soc), Soc)

IdentifyNaturalGroups ==
    ExplorerQuery("identify_natural_groups", identify_natural_groups(graph))

CalculateGroupConnectionLevel ==
    \E group \in GroupsOf(graph) :
        ExplorerQueryOf("calculate_group_connection_level", group,
                        calculate_group_connection_level(graph, group))

\* find_natural_groups returns the list it leaves in _communities_cache
FindNaturalGroupsCall ==
    \E min_group_size \in MinGroupSizes :
        \E s \in find_natural_groups(Soc, min_group_size) :
            SocialQueryOf("find_natural_groups", min_group_size,
                          s.communities_cache.value, s)

\* the rows the tables of data_teste.py are made of, in the order
\* build_interaction_graph meets them; a comment of a on issue n joins a and
\* QueryAuthors[n]
TesteTable ==
    <<Assignee(1, "carol"), Assignee(2, "bob"), Comment(2, "alice"), Comment(3, "bob"),
      Comment(4, "carol"), Comment(5, "dave"), Review(6, "dave")>>

SetTeste(t) ==
    /\ user_interactions' = t.user_interactions
    /\ user_degrees' = t.user_degrees

\* build_interaction_graph of data_teste.py
TesteBuildInteractionGraph ==
    /\ variant = "teste" /\ pc = "ingest"
    /\ \E keep \in SUBSET DOMAIN TesteTable :
          /\ SetTeste(teste_build_interaction_graph(TesteTable, keep))
          /\ log' = SetToBag({TesteTable[i] : i \in keep})
    /\ pc' = "done"
    /\ result' = NoResult
    /\ UNCHANGED <<inputVars, call, libVars, socVars, round>>

\* a query of DataExplorer of data_teste.py, called as main does once
\* build_interaction_graph has run
TesteQueryOf(op, arg, value) ==
    /\ variant = "teste" /\ pc = "done"
    /\ result' = [op |-> op, arg |-> arg, value |-> value]
    /\ UNCHANGED <<inputVars, testeVars, call, libVars, socVars, pc, log, round>>

TesteFindNaturalGroups ==
    TesteQueryOf("find_natural_groups", "",
                 IF user_interactions.keys = <<>> THEN <<>>
                 ELSE teste_find_natural_groups(user_interactions))

GetTotalNeighbors ==
    \E user_id \in QueryIds :
        ExplorerQueryOf("get_total_neighbors", user_id, get_total_neighbors(St, user_id))

GetTotalIndirectNeighbors ==
    \E user_id \in QueryIds :
        ExplorerQueryOf("get_total_indirect_neighbors", user_id,
                        get_total_indirect_neighbors(St, user_id))

FindClosestUsersCall ==
    \E target_user \in QueryIds, n \in TopNs :
        \E value \in closest_users(Soc, target_user, n) :
            SocialQueryOf("find_closest_users", <<target_user, n>>, value,
                          find_closest_users(Soc, target_user))

TesteFindClosestUsers ==
    \E user \in QueryIds, top_n \in TopNs :
        TesteQueryOf("find_closest_users", <<user, top_n>>,
                     teste_find_closest_users(user_interactions, user, top_n))

FindNonInteractingCloseUsersCall ==
    \E target_user \in QueryIds, n \in TopNs :
        \E value \in non_interacting(Soc, target_user, n) :
            SocialQueryOf("find_non_interacting", <<target_user, n>>, value,
                          find_non_interacting_close_users(Soc, target_user))

TesteFindNonInteractingClosest ==
    \E user \in QueryIds, top_n \in TopNs :
        TesteQueryOf("find_non_interacting", <<user, top_n>>,
                     teste_find_non_interacting_closest(user_interactions, user, top_n))

NextQueries ==
    \/ BuildInteractionGraph
    \/ BuildGraph
    \/ CalculateWeightedDegrees
    \/ CalculateUserScores
    \/ CalculateGraphDensity
    \/ IdentifyTopWeightedVertices
    \/ GetMostInfluentialUsersCall
    \/ CalculateCommunityConnectivityCall
    \/ IdentifyNaturalGroups
    \/ CalculateGroupConnectionLevel
    \/ FindNaturalGroupsCall
    \/ TesteBuildInteractionGraph
    \/ TesteFindNaturalGroups
    \/ GetTotalNeighbors
    \/ GetTotalIndirectNeighbors
    \/ FindClosestUsersCall
    \/ TesteFindClosestUsers
    \/ FindNonInteractingCloseUsersCall
    \/ TesteFindNonInteractingClosest

SpecQueries == InitQueries /\ [][NextQueries]_vars

----------------------------------------------------------------------------
(* SpecGroups: find_natural_groups statement by statement.  A step is the   *)
(* test of the while loop, one user of the for loop, or the return.         *)

\* final_communities without the duplicates: the values of communities of at
\* least min_group_size users, in the order of the keys, each once
unique_communities(communities_of, order, min_group_size) ==
    LET final_communities ==
            SelectSeq([i \in DOMAIN order |-> communities_of[order[i]]],
                      LAMBDA community : Cardinality(community) >= min_group_size)
        first == SelectSeq([i \in DOMAIN final_communities |-> i],
                           LAMBDA i : \A j \in 1..(i - 1) :
                                         final_communities[j] # final_communities[i])
    IN [k \in DOMAIN first |-> final_communities[first[k]]]

\* build_graph without self._communities_cache = None
RebuildGraph_keeps_cache ==
    /\ variant = "social" /\ pc = "done" /\ call.at = "idle"
    /\ \E keep \in SUBSET DOMAIN SocialTable :
          /\ SetSoc([build_graph(SocialTable, keep) EXCEPT
                       !.communities_cache = communities_cache])
          /\ log' = SetToBag({SocialTable[i] : i \in keep})
    /\ result' = NoResult
    /\ round' = 2
    /\ UNCHANGED <<inputVars, testeVars, call, libVars, pc>>

\* build_graph called again on the object, the tables having been loaded
\* anew; round = 2 records that the graph has been rebuilt
RebuildGraph ==
    /\ variant = "social" /\ pc = "done" /\ call.at = "idle"
    /\ \E keep \in SUBSET DOMAIN SocialTable :
          /\ SetSoc(build_graph(SocialTable, keep))
          /\ log' = SetToBag({SocialTable[i] : i \in keep})
    /\ result' = NoResult
    /\ round' = 2
    /\ UNCHANGED <<inputVars, testeVars, call, libVars, pc>>

\* find_natural_groups up to the while loop: the cache is returned if there
\* is one, else every user starts in its own community
FindNaturalGroupsEnter ==
    /\ variant = "social" /\ pc = "done" /\ call.at = "idle"
    /\ \E min_group_size \in MinGroupSizes :
          IF ~communities_cache.is_none
          THEN /\ result' = [op |-> "find_natural_groups", arg |-> min_group_size,
                             value |-> communities_cache.value]
               /\ UNCHANGED call
          ELSE /\ call' = [communities |-> [user \in DOMAIN nodes |-> {user}],
                           community_map |-> [user \in DOMAIN nodes |-> user],
                           improved |-> TRUE, iteration |-> 0, visited |-> 0,
                           min_group_size |-> min_group_size, at |-> "while"]
               /\ UNCHANGED result
    /\ UNCHANGED <<inputVars, testeVars, libVars, socVars, pc, log, round>>

\* the users the for loop of a pass goes through
PassOrder == IF variant = "social" THEN node_order ELSE teste_nodes_ordered(user_interactions)

\* GroupsWhile with while iteration < 10
GroupsWhile_not_improved ==
    /\ call.at = "while"
    /\ call' = IF call.iteration < MaxIterations
               THEN [communities |-> call.communities, community_map |-> call.community_map,
                     improved |-> FALSE, iteration |-> call.iteration + 1, visited |-> 0,
                     min_group_size |-> call.min_group_size, at |-> "for"]
               ELSE [communities |-> call.communities, community_map |-> call.community_map,
                     improved |-> call.improved, iteration |-> call.iteration,
                     visited |-> call.visited,
                     min_group_size |-> call.min_group_size, at |-> "return"]
    /\ UNCHANGED <<inputVars, testeVars, libVars, socVars, pc, result, log, round>>

\* while improved and iteration < 10: improved = False; iteration += 1
GroupsWhile ==
    /\ call.at = "while"
    /\ call' = IF call.improved /\ call.iteration < MaxIterations
               THEN [communities |-> call.communities, community_map |-> call.community_map,
                     improved |-> FALSE, iteration |-> call.iteration + 1, visited |-> 0,
                     min_group_size |-> call.min_group_size, at |-> "for"]
               ELSE [communities |-> call.communities, community_map |-> call.community_map,
                     improved |-> call.improved, iteration |-> call.iteration,
                     visited |-> call.visited,
                     min_group_size |-> call.min_group_size, at |-> "return"]
    /\ UNCHANGED <<inputVars, testeVars, libVars, socVars, pc, result, log, round>>

\* the for loop has gone through every user: back to the test of the while
GroupsForEnd ==
    /\ call.at = "for" /\ call.visited = Len(PassOrder)
    /\ call' = [communities |-> call.communities, community_map |-> call.community_map,
                improved |-> call.improved, iteration |-> call.iteration,
                visited |-> call.visited,
                min_group_size |-> call.min_group_size, at |-> "while"]
    /\ UNCHANGED <<inputVars, testeVars, libVars, socVars, pc, result, log, round>>

\* Visited without communities[old_community].remove(user)
Visited_not_removed(user, best_community) ==
    LET old_community == call.community_map[user]
        moved == best_community # old_community
    IN [communities |->
            [c \in DOMAIN call.communities |->
                IF moved /\ c = best_community THEN call.communities[c] \cup {user}
                ELSE call.communities[c]],
        community_map |->
            [u \in DOMAIN call.community_map |->
                IF u = user THEN best_community ELSE call.community_map[u]],
        improved |-> call.improved \/ moved,
        iteration |-> call.iteration, visited |-> call.visited + 1,
        min_group_size |-> call.min_group_size, at |-> "for"]

\* the locals once the for loop has visited user and found best_community
\* for it: if best_community != community_map[user], the user is moved
Visited(user, best_community) ==
    LET old_community == call.community_map[user]
        moved == best_community # old_community
    IN [communities |->
            [c \in DOMAIN call.communities |->
                IF moved /\ c = best_community THEN call.communities[c] \cup {user}
                ELSE IF moved /\ c = old_community THEN call.communities[c] \ {user}
                ELSE call.communities[c]],
        community_map |->
            [u \in DOMAIN call.community_map |->
                IF u = user THEN best_community ELSE call.community_map[u]],
        improved |-> call.improved \/ moved,
        iteration |-> call.iteration, visited |-> call.visited + 1,
        min_group_size |-> call.min_group_size, at |-> "for"]

\* one user of for user in self.nodes: the best community among those of the
\* neighbours is looked for and the user is moved to it
FindNaturalGroupsVisit ==
    /\ variant = "social" /\ call.at = "for" /\ call.visited < Len(node_order)
    /\ LET user == node_order[call.visited + 1]
       IN /\ \E best_community \in BestCommunities(Soc, user, call.community_map) :
                call' = Visited(user, best_community)
          /\ SetSoc(ReadAdjacency(Soc, {user}))
    /\ UNCHANGED <<inputVars, testeVars, libVars, pc, result, log, round>>

\* the end of find_natural_groups: the communities are filtered, cached and
\* returned
FindNaturalGroupsReturn ==
    /\ variant = "social" /\ call.at = "return"
    /\ LET unique == unique_communities(call.communities, node_order, call.min_group_size)
       IN /\ communities_cache' = [is_none |-> FALSE, value |-> unique]
          /\ result' = [op |-> "find_natural_groups", arg |-> call.min_group_size,
                        value |-> unique]
    /\ call' = NoCall
    /\ UNCHANGED <<inputVars, testeVars, libVars, nodes, node_order, edges, reverse_edges,
                   pc, log, round>>

\* find_natural_groups of data_teste.py up to the while loop: {} for an
\* empty graph, else the i-th user gets the label i
TesteFindNaturalGroupsEnter ==
    /\ variant = "teste" /\ pc = "done" /\ call.at = "idle"
    /\ IF user_interactions.keys = <<>>
       THEN /\ result' = [op |-> "find_natural_groups", arg |-> "", value |-> <<>>]
            /\ UNCHANGED call
       ELSE /\ call' = [communities |-> EmptyFn,
                        community_map |-> [user \in SeqToSet(user_interactions.keys) |->
                                              IndexOf(user_interactions.keys, user) - 1],
                        improved |-> TRUE, iteration |-> 0, visited |-> 0,
                        min_group_size |-> 0, at |-> "while"]
            /\ UNCHANGED result
    /\ UNCHANGED <<inputVars, testeVars, libVars, socVars, pc, log, round>>

\* one node of for node in nodes_ordered
TesteFindNaturalGroupsVisit ==
    /\ variant = "teste" /\ call.at = "for" /\ call.visited < Len(PassOrder)
    /\ LET node == PassOrder[call.visited + 1]
           most_common == teste_visit(user_interactions, node, call.community_map)
       IN call' = Visited(node, most_common)
    /\ UNCHANGED <<inputVars, testeVars, libVars, socVars, pc, result, log, round>>

\* the end of find_natural_groups of data_teste.py
TesteFindNaturalGroupsReturn ==
    /\ variant = "teste" /\ call.at = "return"
    /\ result' = [op |-> "find_natural_groups", arg |-> "",
                  value |-> teste_groups(user_interactions, call.community_map)]
    /\ call' = NoCall
    /\ UNCHANGED <<inputVars, testeVars, libVars, socVars, pc, log, round>>

InitGroups == InitQueries /\ variant \in {"social", "teste"}

\* the steps of a running call
GroupsStep ==
    \/ GroupsWhile
    \/ GroupsForEnd
    \/ FindNaturalGroupsVisit
    \/ FindNaturalGroupsReturn
    \/ TesteFindNaturalGroupsVisit
    \/ TesteFindNaturalGroupsReturn

NextGroups ==
    \/ BuildGraph
    \/ TesteBuildInteractionGraph
    \/ RebuildGraph
    \/ FindNaturalGroupsEnter
    \/ TesteFindNaturalGroupsEnter
    \/ GroupsStep

SpecGroups == InitGroups /\ [][NextGroups]_vars

\* a call, once made, runs on: the method is sequential code
SpecGroupsFair == SpecGroups /\ WF_vars(GroupsStep)

----------------------------------------------------------------------------
(* SpecFragment: find_most_fragmenting_user over graphs of six users       *)

\* np.percentile(weights, 75), four times its value: numpy interpolates
\* linearly between the two sorted weights around the index 0.75 * (n - 1)
percentile_75(s) ==
    LET order == s.node_order
        n == Len(order)
        Before(v, u) ==
            \/ s.nodes[v] < s.nodes[u]
            \/ s.nodes[v] = s.nodes[u] /\ IndexOf(order, v) < IndexOf(order, u)
        sorted == Ranking(order,
                          {p \in SeqToSet(order) \X SeqToSet(order) : Before(p[1], p[2])}, n)
        below == (3 * (n - 1)) \div 4 + 1
        above == IF below < n THEN below + 1 ELSE below
        fraction == (3 * (n - 1)) % 4
    IN 4 * s.nodes[sorted[below]]
         + fraction * (s.nodes[sorted[above]] - s.nodes[sorted[below]])

\* important_users[:50]: the users whose weight is greater than the percentile
important_users(s) ==
    LET above(user) == 4 * s.nodes[user] > percentile_75(s)
        all == SelectSeq(s.node_order, above)
    IN IF Len(all) > 50 THEN SubSeq(all, 1, 50) ELSE all

\* temp_edges: self.edges without the key user and without the target user
temp_edges_without(s, user) ==
    [u \in DOMAIN s.edges \ {user} |->
        [v \in DOMAIN s.edges[u] \ {user} |-> s.edges[u][v]]]

\* _count_connected_components_temp: the reverse neighbours are found by a
\* scan of temp_edges
count_connected_components_temp(temp_edges) ==
    LET all_users == DOMAIN temp_edges \cup UNION {DOMAIN temp_edges[u] : u \in DOMAIN temp_edges}
        temp == [edges |-> temp_edges,
                 reverse_edges |->
                     [v \in all_users |->
                         [u \in {w \in DOMAIN temp_edges : v \in DOMAIN temp_edges[w]}
                            |-> temp_edges[u][v]]]]
    IN Cardinality({Reach(temp, {user}) : user \in all_users})

RECURSIVE fragmentation_loop_keeps_last(_, _, _, _)
\* the loop with "if fragmentation >= max_fragmentation"
fragmentation_loop_keeps_last(fragmentation, todo, best, max_fragmentation) ==
    IF todo = <<>> THEN best
    ELSE LET user == Head(todo)
         IN IF fragmentation[user] >= max_fragmentation
            THEN fragmentation_loop_keeps_last(fragmentation, Tail(todo),
                                               <<user, fragmentation[user]>>,
                                               fragmentation[user])
            ELSE fragmentation_loop_keeps_last(fragmentation, Tail(todo), best,
                                               max_fragmentation)

RECURSIVE fragmentation_loop(_, _, _, _)
\* for user in important_users[:50]: a strictly greater fragmentation replaces
\* most_fragmenting_user; best is <<>> for None
fragmentation_loop(fragmentation, todo, best, max_fragmentation) ==
    IF todo = <<>> THEN best
    ELSE LET user == Head(todo)
         IN IF fragmentation[user] > max_fragmentation
            THEN fragmentation_loop(fragmentation, Tail(todo),
                                    <<user, fragmentation[user]>>, fragmentation[user])
            ELSE fragmentation_loop(fragmentation, Tail(todo), best, max_fragmentation)

\* the value find_most_fragmenting_user returns, <<>> for None; temp_edges is
\* copied from self.edges after _count_connected_components has read it
most_fragmenting_user(s) ==
    IF Cardinality(DOMAIN s.nodes) < 3 THEN <<>>
    ELSE LET current_components ==
                 Cardinality({Reach(s, {user}) : user \in DOMAIN s.nodes})
             counted == count_connected_components(s)
             fragmentation ==
                 [user \in SeqToSet(important_users(s)) |->
                     count_connected_components_temp(temp_edges_without(counted, user))
                       - current_components]
         IN fragmentation_loop(fragmentation, important_users(s), <<>>, 0)

\* six issues of six users, no pull request; comments_df has the rows keep of
\* the table below: the comment of a on issue n gives the edge a -> author of n
FragmentIssues ==
    <<"alice", "bob", "carol", "dave", "erin", "frank">>

FragmentTable ==
    <<Comment(1, "bob"), Comment(3, "bob"), Comment(4, "erin"), Comment(6, "erin"),
      Comment(3, "erin"), Comment(2, "alice"), Comment(5, "dave")>>

InitFragment ==
    /\ variant = "social"
    /\ issues = [n \in 1..Len(FragmentIssues) |-> FragmentIssues[n]]
    /\ pull_requests = EmptyFn
    /\ hash_hits = {}
    /\ graph = NewGraph
    /\ added_vertices = {}
    /\ user_weights = EmptyFn
    /\ nodes = EmptyFn
    /\ node_order = <<>>
    /\ edges = EmptyFn
    /\ reverse_edges = EmptyFn
    /\ communities_cache = NoCache
    /\ user_interactions = EmptyDict
    /\ user_degrees = EmptyFn
    /\ call = NoCall
    /\ miner = NoMiner
    /\ pc = "init"
    /\ result = NoResult
    /\ log = EmptyBag
    /\ round = 1

\* build_graph over the rows keep of FragmentTable
BuildFragmentGraph ==
    /\ variant = "social" /\ pc \in {"init", "done"}
    /\ \E keep \in SUBSET DOMAIN FragmentTable :
          /\ SetSoc(build_graph(FragmentTable, keep))
          /\ log' = SetToBag({FragmentTable[i] : i \in keep})
    /\ pc' = "done"
    /\ result' = NoResult
    /\ UNCHANGED <<inputVars, testeVars, call, libVars, round>>

\* find_most_fragmenting_user, with the candidates it evaluated
FindMostFragmentingUserCall ==
    SocialQueryOf("find_most_fragmenting_user", "",
                  [important_users |-> important_users(Soc),
                   returned |-> most_fragmenting_user(Soc)],
                  find_most_fragmenting_user(Soc))

NextFragment == BuildFragmentGraph \/ FindMostFragmentingUserCall

SpecFragment == InitFragment /\ [][NextFragment]_vars

----------------------------------------------------------------------------
(* SpecMiner: GitHubMiner, its token rotation and make_graphql_request     *)
(* one requests.post at a time.  The record miner holds the fields of the  *)
(* object (authorization is the token in self.headers), the loop variable  *)
(* attempt, the position at, and as history the responses the running or   *)
(* last call received and the index the last rotation left (-1: none).     *)

\* max_retries = 3
max_retries == 3

\* the token lists and the values of requests_per_token a miner is made with
TokenLists == {<<"t1">>, <<"t1", "t2">>, <<"t1", "t2", "t3">>}
RequestsPerToken == {1, 2, 3}

\* what a requests.post can give: a response with a status code, the body of
\* a 200 response with or without the key "errors", or a RequestException
\* raised in place of a response
Responses ==
    {[raised |-> FALSE, status |-> 200, errors |-> e] : e \in BOOLEAN}
      \cup {[raised |-> FALSE, status |-> code, errors |-> FALSE] :
               code \in {401, 404, 500, 502, 503, 504}}
      \cup {[raised |-> TRUE, status |-> 0, errors |-> FALSE]}

\* the dictionary response.json() gives for a body without "errors"
Data == "data"

\* __init__
NewMiner(tokens, requests_per_token) ==
    [tokens |-> tokens, requests_per_token |-> requests_per_token,
     current_token_index |-> 0, current_token_requests |-> 0,
     authorization |-> tokens[1], attempt |-> 0, responses |-> <<>>,
     rotated_from |-> -1, at |-> "idle"]

\* rotate_token; tokens[i + 1] is the token of index i
rotate_token(m) ==
    LET next == (m.current_token_index + 1) % Len(m.tokens)
    IN [m EXCEPT !.current_token_index = next,
                 !.current_token_requests = 0,
                 !.authorization = m.tokens[next + 1],
                 !.rotated_from = m.current_token_index]

\* check_rate_limit with "if self.current_token_requests > self.requests_per_token"
check_rate_limit_late(m) ==
    LET m1 == IF m.current_token_requests > m.requests_per_token
              THEN rotate_token(m) ELSE m
    IN [m1 EXCEPT !.current_token_requests = @ + 1]

\* check_rate_limit
check_rate_limit(m) ==
    LET m1 == IF m.current_token_requests >= m.requests_per_token
              THEN rotate_token(m) ELSE m
    IN [m1 EXCEPT !.current_token_requests = @ + 1]

\* one pass of "for attempt in range(max_retries)" in which every status but
\* 200 is tried again
after_post_retries_any_status(m, response) ==
    LET received == [m EXCEPT !.responses = Append(@, response)]
    IN IF ~response.raised /\ response.status = 200
       THEN [miner |-> [received EXCEPT !.at = "idle"],
             returned |-> IF response.errors THEN <<None>> ELSE <<Data>>]
       ELSE IF m.attempt < max_retries - 1
       THEN [miner |-> [received EXCEPT !.attempt = @ + 1], returned |-> <<>>]
       ELSE [miner |-> [received EXCEPT !.at = "idle"], returned |-> <<None>>]

\* one pass of "for attempt in range(max_retries)": the object and the locals
\* after the post, and the value returned, if the call returns (<<>>: it
\* goes on with the next attempt)
after_post(m, response) ==
    LET received == [m EXCEPT !.responses = Append(@, response)]
        again == response.raised \/ response.status \in {502, 503, 504}
    IN IF ~response.raised /\ response.status = 200
       THEN [miner |-> [received EXCEPT !.at = "idle"],
             returned |-> IF response.errors THEN <<None>> ELSE <<Data>>]
       ELSE IF again /\ m.attempt < max_retries - 1
       THEN [miner |-> [received EXCEPT !.attempt = @ + 1], returned |-> <<>>]
       ELSE [miner |-> [received EXCEPT !.at = "idle"], returned |-> <<None>>]

InitMiner ==
    /\ variant = "miner"
    /\ issues = EmptyFn
    /\ pull_requests = EmptyFn
    /\ hash_hits = {}
    /\ graph = NewGraph
    /\ added_vertices = {}
    /\ user_weights = EmptyFn
    /\ nodes = EmptyFn
    /\ node_order = <<>>
    /\ edges = EmptyFn
    /\ reverse_edges = EmptyFn
    /\ communities_cache = NoCache
    /\ user_interactions = EmptyDict
    /\ user_degrees = EmptyFn
    /\ call = NoCall
    /\ \E tokens \in TokenLists, requests_per_token \in RequestsPerToken :
          miner = NewMiner(tokens, requests_per_token)
    /\ pc = "done"
    /\ result = NoResult
    /\ log = EmptyBag
    /\ round = 1

\* what the methods of GitHubMiner leave alone
minerUnchanged ==
    UNCHANGED <<variant, issues, pull_requests, hash_hits, testeVars, call, libVars,
                socVars, pc, log, round>>

\* make_graphql_request up to the for loop: check_rate_limit, then the payload
MakeGraphqlRequest ==
    /\ variant = "miner" /\ miner.at = "idle"
    /\ miner' = [check_rate_limit(miner) EXCEPT
                    !.attempt = 0, !.responses = <<>>, !.at = "post"]
    /\ result' = NoResult
    /\ minerUnchanged

\* one requests.post of make_graphql_request and what the loop does with the
\* response; the value on record is <<Data>> or <<None>>
Post ==
    /\ variant = "miner" /\ miner.at = "post"
    /\ \E response \in Responses :
          LET after == after_post(miner, response)
          IN /\ miner' = after.miner
             /\ result' = IF after.returned = <<>> THEN result
                          ELSE [op |-> "make_graphql_request",
                                arg |-> after.miner.responses,
                                value |-> after.returned]
    /\ minerUnchanged

NextMiner == MakeGraphqlRequest \/ Post

SpecMiner == InitMiner /\ [][NextMiner]_vars

\* requests.post returns or raises within its timeout of 30 seconds, and the
\* sleeps between the attempts end
SpecMinerFair == SpecMiner /\ WF_vars(Post)

----------------------------------------------------------------------------
(* C11 *)

\* influence_score in exact arithmetic, in tenths
ExactScore(user) ==
    LET out == Inner(edges, user)
        in == Inner(reverse_edges, user)
    IN 3 * (Cardinality(DOMAIN out) + Cardinality(DOMAIN in))
         + 4 * SumSet(out, DOMAIN out) + 2 * SumSet(in, DOMAIN in) + nodes[user]

Min(a, b) == IF a < b THEN a ELSE b

\* the answer names min(n, V) distinct users, and a user left out never has
\* a strictly higher score than a user of the answer
IsTopOf(value, n, order, score) ==
    /\ Len(value) = Min(n, Len(order))
    /\ NoDup([i \in DOMAIN value |-> value[i][1]])
    /\ \A i \in DOMAIN value : value[i][1] \in SeqToSet(order)
    /\ \A u \in SeqToSet(order) \ {value[i][1] : i \in DOMAIN value} :
          \A i \in DOMAIN value : score[u] <= score[value[i][1]]

\* non-increasing score, and first inserted first among equal scores
IsRanked(value, order, score) ==
    \A i, j \in DOMAIN value :
        i < j => \/ score[value[i][1]] > score[value[j][1]]
                 \/ /\ score[value[i][1]] = score[value[j][1]]
                    /\ IndexOf(order, value[i][1]) < IndexOf(order, value[j][1])

\* C11: get_most_influential_users(n) returns min(n, V) distinct users in
\* non-increasing order of 0.3 * (out_degree + in_degree) + 0.4 * out_weight
\* + 0.2 * in_weight + 0.1 * activity weight, no user left out has a strictly
\* higher score than a returned one, and of two users of equal score the one
\* inserted first comes first.
C11_TopUsersRankedByScore ==
    result.op = "get_most_influential_users" =>
        LET score == [user \in DOMAIN nodes |-> ExactScore(user)]
        IN /\ IsTopOf(result.value, result.arg, node_order, score)
           /\ IsRanked(result.value, node_order, score)

\* the same for identify_top_weighted_vertices and the weighted degree
TopWeightedVerticesRanked ==
    result.op = "identify_top_weighted_vertices" =>
        LET score == calculate_weighted_degrees(graph)
        IN /\ IsTopOf(result.value, result.arg, graph.vertices, score)
           /\ IsRanked(result.value, graph.vertices, score)

\* get_most_influential_users ranks by the doubles it computed: the order is
\* the stable one for influence_score as rounded
TopUsersRankedByComputedScore ==
    result.op = "get_most_influential_users" =>
        \A i, j \in DOMAIN result.value :
            i < j => LET a == result.value[i]
                         b == result.value[j]
                     IN \/ Greater(a[2], b[2])
                        \/ a[2] = b[2] /\ IndexOf(node_order, a[1]) < IndexOf(node_order, b[1])

----------------------------------------------------------------------------
(* C12 *)

VertexSet ==
    CASE variant = "social" -> DOMAIN nodes
      [] variant = "teste" -> SeqToSet(user_interactions.keys)
      [] OTHER -> SeqToSet(graph.vertices)

\* the ordered pairs of distinct vertices with an edge
EdgePairs == {p \in VertexSet \X VertexSet : p[1] # p[2] /\ PairWeight(p[1], p[2]) > 0}

\* value is percent hundredths of the share of ordered pairs with an edge:
\* it lies between 0 and percent / 100, is 0 when there is at most one vertex
\* or no edge, and is percent / 100 only on a complete graph
IsEdgeRatio(value, percent) ==
    LET V == Cardinality(VertexSet)
    IN /\ value = IF V <= 1 THEN Fraction(0, 1)
                  ELSE Fraction(percent * Cardinality(EdgePairs), V * (V - 1))
       /\ value.den > 0
       /\ 0 <= value.num /\ value.num <= percent * value.den
       /\ (V <= 1 \/ EdgePairs = {}) => value.num = 0
       /\ value.num = percent * value.den =>
             /\ V > 1
             /\ \A s, t \in VertexSet : s # t => PairWeight(s, t) > 0

\* C12: on every graph ingestion can build, density is the number of ordered
\* pairs with an edge over V * (V - 1); it lies in [0, 1], is 0 when V <= 1 or
\* there is no edge, and is 1 only when every ordered pair of distinct
\* vertices has an edge.  calculate_community_connectivity returns the same
\* ratio as a percentage.
C12_DensityIsEdgeRatio ==
    /\ result.op = "calculate_graph_density" => IsEdgeRatio(result.value, 1)
    /\ result.op = "calculate_community_connectivity" => IsEdgeRatio(result.value, 100)

\* the density of a graph of two vertices with both edges, inside a larger
\* table, has been computed
C12_Witness ==
    /\ result.op = "calculate_graph_density"
    /\ Len(graph.vertices) = 2
    /\ Cardinality(EdgePairs) = 2
    /\ BagCardinality(log) >= 3
    /\ result.value.num = result.value.den

----------------------------------------------------------------------------
(* C13 *)

RECURSIVE ReachableFrom(_)
\* the vertices a directed path leads to from a vertex of S
ReachableFrom(S) ==
    LET T == S \cup {p[2] : p \in {q \in EdgePairs : q[1] \in S}}
    IN IF T = S THEN S ELSE ReachableFrom(T)

MutuallyReachable(u, v) == v \in ReachableFrom({u}) /\ u \in ReachableFrom({v})

\* C13: identify_natural_groups returns exactly the strongly connected
\* components: every vertex is in exactly one group, the groups are disjoint
\* and cover the vertex set, and two vertices share a group if and only if
\* each is reachable from the other along directed edges.
C13_GroupsAreStronglyConnectedComponents ==
    result.op = "identify_natural_groups" =>
        LET groups == result.value
        IN /\ \A v \in VertexSet :
                 Cardinality({p \in {<<i, k>> : i \in DOMAIN groups, k \in 1..Len(QueryAuthors)} :
                                 p[2] <= Len(groups[p[1]]) /\ groups[p[1]][p[2]] = v}) = 1
           /\ \A i \in DOMAIN groups : SeqToSet(groups[i]) \subseteq VertexSet /\ groups[i] # <<>>
           /\ \A u, v \in VertexSet :
                 (\E i \in DOMAIN groups : {u, v} \subseteq SeqToSet(groups[i]))
                     <=> MutuallyReachable(u, v)

\* the groups of a graph that holds the cycle alice -> bob -> carol -> dave
\* -> alice have been computed: the four are one group
C13_Witness ==
    /\ result.op = "identify_natural_groups"
    /\ \A i \in 1..4 : PairWeight(QueryAuthors[i], QueryAuthors[(i % 4) + 1]) > 0
    /\ \E i \in DOMAIN result.value :
          SeqToSet(result.value[i]) = {"alice", "bob", "carol", "dave"}
    /\ \E v \in VertexSet : ~MutuallyReachable(v, "alice")

----------------------------------------------------------------------------
(* C14 *)

\* C14: for a group of n vertices calculate_group_connection_level returns
\* 100 * (ordered pairs of distinct members joined by a direct edge) /
\* (n * (n - 1)), and 100 when n <= 1; the result lies in [0, 100].
C14_GroupConnectionLevel ==
    result.op = "calculate_group_connection_level" =>
        LET group == SeqToSet(result.arg)
            n == Cardinality(group)
            joined == {p \in EdgePairs : p[1] \in group /\ p[2] \in group}
        IN /\ result.value = IF n <= 1 THEN Fraction(100, 1)
                             ELSE Fraction(100 * Cardinality(joined), n * (n - 1))
           /\ result.value.den > 0
           /\ 0 <= result.value.num /\ result.value.num <= 100 * result.value.den

\* the level of the group of the cycle alice -> bob -> carol -> dave -> alice
\* has been computed: 4 of the 12 ordered pairs
C14_Witness ==
    /\ result.op = "calculate_group_connection_level"
    /\ \E i \in DOMAIN identify_natural_groups(graph) : identify_natural_groups(graph)[i] = result.arg
    /\ Len(result.arg) = 4
    /\ result.value = Fraction(400, 12)

----------------------------------------------------------------------------
(* C15 *)

\* the partitions label propagation can end with on the graph
Partitions == Propagate(Soc, [u \in DOMAIN nodes |-> u], 0)

\* C15: whatever calls of find_natural_groups came before on the unchanged
\* graph, a call with minimum size m returns exactly the label-propagation
\* communities of at least m members: none smaller than m is returned and
\* none of size >= m is missing.
C15_GroupsRespectMinimumSize ==
    (variant = "social" /\ result.op = "find_natural_groups") =>
        /\ \A i \in DOMAIN result.value : Cardinality(result.value[i]) >= result.arg
        /\ \E community_map \in Partitions :
              result.value = UniqueCommunities(Soc, community_map, result.arg)

\* the first call of find_natural_groups on a graph does return the
\* communities of at least min_group_size members
FirstCallRespectsMinimumSize ==
    [][(variant = "social" /\ result'.op = "find_natural_groups" /\ communities_cache.is_none) =>
          /\ \A i \in DOMAIN result'.value : Cardinality(result'.value[i]) >= result'.arg
          /\ \E community_map \in Partitions :
                result'.value = UniqueCommunities(Soc, community_map, result'.arg)]_vars

----------------------------------------------------------------------------
(* C16 *)

\* the partition a list of communities stands for
PartitionOf(communities) == {communities[i] : i \in DOMAIN communities}

\* C16: community detection run on an unchanged graph yields one partition:
\* the result is a function of the graph and its insertion order alone.  For
\* SocialGraph: every partition label propagation can end with on the graph
\* is the one returned.
C16_PartitionIsFunctionOfGraph ==
    (variant = "social" /\ result.op = "find_natural_groups" /\ result.arg = 1) =>
        \A community_map \in Partitions :
            PartitionOf(UniqueCommunities(Soc, community_map, 1)) = PartitionOf(result.value)

\* within one object a second call of find_natural_groups with the same
\* minimum returns what the first returned
SecondCallReturnsTheSame ==
    [][(result.op = "find_natural_groups" /\ result'.op = "find_natural_groups"
        /\ result'.arg = result.arg) => result'.value = result.value]_vars

\* find_natural_groups of data_teste.py puts every user in exactly one group
TesteGroupsArePartition ==
    (variant = "teste" /\ result.op = "find_natural_groups") =>
        \A u \in SeqToSet(user_interactions.keys) :
            Cardinality({i \in DOMAIN result.value : u \in SeqToSet(result.value[i][2])}) = 1

----------------------------------------------------------------------------
(* C17 *)

\* the vertices other than id joined to id by an edge in either direction
Adjacent(id) ==
    IF variant = "teste"
    THEN {v \in VertexSet \ {id} : v \in SeqToSet(user_interactions.value[id].keys)}
    ELSE {v \in VertexSet \ {id} : PairWeight(id, v) > 0 \/ PairWeight(v, id) > 0}

\* C17: get_total_neighbors(id) is the number of distinct vertices other than
\* id joined to id by an edge in either direction; it is at most V - 1 and 0
\* for a vertex without edges.
C17_TotalNeighbors ==
    result.op = "get_total_neighbors" =>
        /\ result.arg \in VertexSet => result.value = Cardinality(Adjacent(result.arg))
        /\ result.arg \in VertexSet => result.value <= Cardinality(VertexSet) - 1
        /\ Adjacent(result.arg) = {} => result.value = 0

\* the neighbours of a vertex have been counted that has a neighbour joined
\* both ways, counted once, and a neighbour joined by an incoming edge only
C17_Witness ==
    /\ result.op = "get_total_neighbors"
    /\ result.arg \in VertexSet
    /\ \E v \in VertexSet : PairWeight(result.arg, v) > 0 /\ PairWeight(v, result.arg) > 0
    /\ \E v \in VertexSet : PairWeight(result.arg, v) = 0 /\ PairWeight(v, result.arg) > 0
    /\ result.value = Cardinality(Adjacent(result.arg))
    /\ result.value >= 2

----------------------------------------------------------------------------
(* C18 *)

RECURSIVE Within(_, _)
\* the vertices at undirected distance at most k from id
Within(id, k) ==
    IF k = 0 THEN {id}
    ELSE Within(id, k - 1) \cup UNION {Adjacent(v) : v \in Within(id, k - 1)}

\* C18: get_total_indirect_neighbors(id) is the number of vertices whose
\* shortest distance from id, over the edges taken in both directions, is
\* exactly 2 or exactly 3; the source, its direct neighbours and the vertices
\* at distance 4 or more are not counted.
C18_IndirectNeighbors ==
    (result.op = "get_total_indirect_neighbors" /\ result.arg \in VertexSet) =>
        result.value = Cardinality(Within(result.arg, 3) \ Within(result.arg, 1))

\* the indirect neighbours of a vertex have been counted that has vertices at
\* distance 1, 2, 3 and 4
C18_Witness ==
    /\ result.op = "get_total_indirect_neighbors"
    /\ result.arg \in VertexSet
    /\ \A k \in 1..4 : Within(result.arg, k) # Within(result.arg, k - 1)
    /\ result.value = 2

----------------------------------------------------------------------------
(* C19 *)

\* the vertices other than id joined to id by a path over the edges taken in
\* both directions
ReachableOf(id) == Within(id, Cardinality(VertexSet)) \ {id}

\* the length of the shortest such path from id to v
DistanceOf(id, v) ==
    CHOOSE k \in 0..Cardinality(VertexSet) :
        v \in Within(id, k) /\ (k = 0 \/ v \notin Within(id, k - 1))

\* the position in o of the vertex that discovers o[j]: its first neighbour
Discoverer(o, j) == CHOOSE i \in DOMAIN o :
    /\ o[i] \in Adjacent(o[j])
    /\ \A h \in 1..(i - 1) : o[h] \notin Adjacent(o[j])

\* the orders in which a breadth-first search from id can discover the
\* vertices: every vertex after its discoverer, and the discoverers in order
DiscoveryOrders(id) ==
    {o \in {<<id>> \o p : p \in Perms(ReachableOf(id))} :
        /\ \A j \in 2..Len(o) : \E i \in 1..(j - 1) : o[i] \in Adjacent(o[j])
        /\ \A j \in 2..(Len(o) - 1) : Discoverer(o, j) <= Discoverer(o, j + 1)}

\* two vertices with the same discoverer are met in the order of the keys of
\* the discoverer's dict
InKeyOrder(o) ==
    \A j \in 2..(Len(o) - 1) :
        Discoverer(o, j) = Discoverer(o, j + 1) =>
            LET keys == user_interactions.value[o[Discoverer(o, j)]].keys
            IN IndexOf(keys, o[j]) < IndexOf(keys, o[j + 1])

\* C19: find_closest_users(id, n) returns min(n, number of vertices reachable
\* from id) pairs (vertex, distance): the distance is the shortest undirected
\* distance from id, the pairs are sorted by non-decreasing distance with
\* equal distances in breadth-first discovery order, id and the unreachable
\* vertices are not among them, and no omitted reachable vertex is strictly
\* closer than a returned one.
C19_ClosestUsers ==
    (result.op = "find_closest_users" /\ result.arg[1] \in VertexSet) =>
        LET id == result.arg[1]
            n == result.arg[2]
            closest == result.value
            user(i) == closest[i][1]
            distance(i) == closest[i][2]
            returned == {user(i) : i \in DOMAIN closest}
        IN /\ Len(closest) = Min(n, Cardinality(ReachableOf(id)))
           /\ \A i \in DOMAIN closest :
                 /\ user(i) \in ReachableOf(id)
                 /\ distance(i) = DistanceOf(id, user(i))
           /\ \A i, j \in DOMAIN closest : i < j => user(i) # user(j) /\ distance(i) <= distance(j)
           /\ \A v \in ReachableOf(id) \ returned :
                 \A i \in DOMAIN closest : DistanceOf(id, v) >= distance(i)
           /\ \E o \in DiscoveryOrders(id) :
                 /\ \A i \in DOMAIN closest : user(i) = o[i + 1]
                 /\ variant = "teste" => InKeyOrder(o)

\* the two closest of a vertex have been asked for that has two vertices at
\* distance 1 and others farther: two pairs at the same distance are
\* returned and a farther vertex is left out
C19_Witness ==
    /\ result.op = "find_closest_users"
    /\ result.arg[1] \in VertexSet
    /\ result.arg[2] = 2
    /\ Cardinality(Adjacent(result.arg[1])) = 2
    /\ Cardinality(ReachableOf(result.arg[1])) >= 4
    /\ Len(result.value) = 2
    /\ result.value[1][2] = 1 /\ result.value[2][2] = 1

----------------------------------------------------------------------------
(* C20 *)

\* C20: the non-interacting-closest query for (id, n) returns the first n
\* entries of the closest_users ordering of id without the direct neighbours
\* of id: every returned vertex is at distance more than 1, with its
\* distance, and when fewer than n vertices are returned every reachable
\* vertex at distance more than 1, however far, is among them.
C20_NonInteractingClosest ==
    (result.op = "find_non_interacting" /\ result.arg[1] \in VertexSet) =>
        LET id == result.arg[1]
            n == result.arg[2]
            returned == result.value
        IN /\ \E o \in DiscoveryOrders(id) :
                 LET others == SelectSeq(Tail(o), LAMBDA v : v \notin Adjacent(id))
                 IN /\ variant = "teste" => InKeyOrder(o)
                    /\ Len(returned) = Min(n, Len(others))
                    /\ \A i \in DOMAIN returned :
                          returned[i] = <<others[i], DistanceOf(id, others[i])>>
           /\ \A i \in DOMAIN returned : returned[i][2] > 1
           /\ Len(returned) < n =>
                 \A v \in ReachableOf(id) :
                     DistanceOf(id, v) > 1 => \E i \in DOMAIN returned : returned[i][1] = v

\* find_non_interacting_closest of data_teste.py answers as C20 says
TesteNonInteractingClosest == variant = "teste" => C20_NonInteractingClosest

\* find_non_interacting_close_users of SocialGraph answers as C20 says when
\* no vertex is farther than 3 from the queried one
NonInteractingCloseUsersWithinDepth ==
    (/\ variant = "social"
     /\ result.op = "find_non_interacting"
     /\ result.arg[1] \in VertexSet
     /\ ReachableOf(result.arg[1]) \subseteq Within(result.arg[1], SearchDepth))
        => C20_NonInteractingClosest

----------------------------------------------------------------------------
(* C21 *)

\* the answers of the proximity queries that count, and of those that list
CountQueries == {"get_total_neighbors", "get_total_indirect_neighbors"}
ListQueries == {"find_closest_users", "find_non_interacting"}

\* the identity the query that r records was asked about
QueriedId(r) == IF r.op \in ListQueries THEN r.arg[1] ELSE r.arg

\* C21: a proximity query about an identity that is not a vertex of the
\* graph returns its neutral result, 0 or the empty list, and leaves the
\* graph as it was: neither that identity nor anything else is added.
C21_NonVertexQueriesAreNeutral ==
    [][(result'.op \in CountQueries \cup ListQueries /\ QueriedId(result') \notin VertexSet) =>
          /\ result'.op \in CountQueries => result'.value = 0
          /\ result'.op \in ListQueries => result'.value = <<>>
          /\ UNCHANGED <<libVars, socVars, testeVars>>]_vars

\* the closest users of an identity that is in no table have been asked for
\* on a graph that has edges
C21_Witness ==
    /\ result.op = "find_closest_users"
    /\ result.arg[1] \notin VertexSet
    /\ \E v \in VertexSet : Adjacent(v) # {}
    /\ result.value = <<>>

----------------------------------------------------------------------------
(* C22 *)

\* a pass over the vertices begins
PassBegins == call.at = "while" /\ call'.at = "for"

\* a vertex is visited and its label changes
LabelChanges == call.at = "for" /\ call'.community_map # call.community_map

\* C22: label propagation always terminates.  It makes at most 10 passes
\* over the vertices, and no pass begins after a pass in which no vertex
\* changed its label, even if fewer than 10 passes have been made.
C22_PropagationTerminates ==
    /\ [](call.iteration <= 10)
    /\ [][PassBegins => call.iteration < 10 /\ call.improved]_vars
    /\ [][PassBegins => ~call'.improved]_vars
    /\ [][call.at = "for" /\ call'.at = "for" =>
            (call'.improved <=> (call.improved \/ LabelChanges))]_vars
    /\ [][call.at = "for" /\ call'.at = "while" => UNCHANGED call.improved]_vars
    /\ [](call.at # "idle" => <>(call.at = "idle"))

\* the propagation has been stopped by the limit: the tenth pass still
\* changed a label
C22_Witness ==
    /\ call.at = "return"
    /\ call.iteration = 10
    /\ call.improved

----------------------------------------------------------------------------
(* C23 *)

\* the place of a label among the label ids: the labels of SocialGraph are
\* user names, and QueryAuthors lists the names in alphabetical order
LabelRank(label) == IF variant = "teste" THEN label ELSE IndexOf(QueryAuthors, label)

\* twice the gain of giving user the label candidate: the neighbours that
\* have it, minus half the neighbours that have another label
DoubleGain(user, candidate, labels) ==
    2 * Cardinality({v \in Adjacent(user) : labels[v] = candidate})
      - Cardinality({v \in Adjacent(user) : labels[v] # candidate})

\* the label user has after a visit as C23 describes it
Adopted(user, labels) ==
    LET candidates == {labels[v] : v \in Adjacent(user)} \ {labels[user]}
        best == {c \in candidates :
                    /\ DoubleGain(user, c, labels) > 0
                    /\ \A d \in candidates : DoubleGain(user, d, labels) <= DoubleGain(user, c, labels)}
    IN IF best = {} THEN labels[user]
       ELSE CHOOSE c \in best : \A d \in best : LabelRank(c) <= LabelRank(d)

\* C23: a vertex visited during a pass adopts a neighbour's label only if
\* the gain of that label (neighbours sharing it minus half the neighbours
\* with a different label) is strictly positive and maximal among the
\* candidate labels; among candidates of the same maximal gain it adopts the
\* one of lowest label id; otherwise it keeps its label.
C23_AdoptsBestLabel ==
    [][(call.at = "for" /\ call'.at = "for") =>
          LET user == PassOrder[call.visited + 1]
          IN call'.community_map[user] = Adopted(user, call.community_map)]_vars

\* the label a visited vertex is given has a strictly positive gain that no
\* other candidate exceeds, in SocialGraph
SocialAdoptsAGreatestGain ==
    [][(variant = "social" /\ call.at = "for" /\ call'.at = "for") =>
          LET user == PassOrder[call.visited + 1]
              labels == call.community_map
              candidates == {labels[v] : v \in Adjacent(user)} \ {labels[user]}
              new == call'.community_map[user]
          IN IF \E c \in candidates : DoubleGain(user, c, labels) > 0
             THEN /\ new \in candidates
                  /\ \A d \in candidates : DoubleGain(user, d, labels) <= DoubleGain(user, new, labels)
             ELSE new = labels[user]]_vars

----------------------------------------------------------------------------
(* C24, C25 *)

RECURSIVE ComponentWithout(_, _)
\* the vertices joined to a vertex of S by a path that avoids removed
ComponentWithout(S, removed) ==
    LET T == S \cup (UNION {Adjacent(u) : u \in S} \ {removed})
    IN IF T = S THEN S ELSE ComponentWithout(T, removed)

\* the number of connected components once removed and its edges are gone
ComponentsWithout(removed) ==
    Cardinality({ComponentWithout({u}, removed) : u \in VertexSet \ {removed}})

\* the number of components the removal of v adds to the graph
Increase(v) == ComponentsWithout(v) - ComponentsWithout(None)

\* a call of find_most_fragmenting_user on a graph of three vertices or more
FragmentingAnswered ==
    /\ result.op = "find_most_fragmenting_user"
    /\ Cardinality(VertexSet) >= 3

\* C24: find_most_fragmenting_user evaluates as a candidate every vertex
\* whose activity weight is at or above the 75th percentile of the weights; a
\* vertex whose weight equals the percentile is evaluated, and when all the
\* weights are the same every vertex is a candidate.
C24_CandidatesAtOrAboveThePercentile ==
    FragmentingAnswered =>
        \A v \in VertexSet :
            4 * nodes[v] >= percentile_75(Soc) =>
                v \in SeqToSet(result.value.important_users)

\* the candidates are the vertices whose weight is greater than the percentile
CandidatesAreAboveThePercentile ==
    FragmentingAnswered =>
        \A v \in VertexSet :
            v \in SeqToSet(result.value.important_users) <=>
                4 * nodes[v] > percentile_75(Soc)

\* all the vertices have the same weight and none has been evaluated
NoCandidateAmongEquals ==
    /\ FragmentingAnswered
    /\ \A u, v \in VertexSet : nodes[u] = nodes[v]
    /\ result.value.important_users = <<>>

\* C25: find_most_fragmenting_user returns the pair (v, d) in which d, the
\* number of components of the graph without v and its edges minus the
\* number of components of the full graph, is the largest over the
\* candidates, and v is the first candidate in insertion order that attains
\* it; it returns none when no candidate gives a positive increase.
C25_MostFragmentingUser ==
    result.op = "find_most_fragmenting_user" =>
        LET candidates == result.value.important_users
            returned == result.value.returned
        IN IF \E i \in DOMAIN candidates : Increase(candidates[i]) > 0
           THEN /\ Len(returned) = 2
                /\ \E i \in DOMAIN candidates :
                      /\ returned[1] = candidates[i]
                      /\ returned[2] = Increase(candidates[i])
                      /\ \A j \in DOMAIN candidates :
                            Increase(candidates[j]) <= returned[2]
                      /\ \A j \in 1..(i - 1) : Increase(candidates[j]) < returned[2]
                /\ candidates = SelectSeq(node_order, LAMBDA u : u \in SeqToSet(candidates))
           ELSE returned = <<>>

\* two candidates, the second of which splits the graph more than the first,
\* and the second is returned
C25_Witness ==
    /\ result.op = "find_most_fragmenting_user"
    /\ Len(result.value.important_users) = 2
    /\ Increase(result.value.important_users[1]) > 0
    /\ Increase(result.value.important_users[2]) > Increase(result.value.important_users[1])
    /\ result.value.returned = <<result.value.important_users[2],
                                 Increase(result.value.important_users[2])>>

\* two candidates that split the graph alike: the first is returned
FirstOfEqualCandidates ==
    /\ result.op = "find_most_fragmenting_user"
    /\ Len(result.value.important_users) = 2
    /\ Increase(result.value.important_users[1]) > 0
    /\ Increase(result.value.important_users[2]) = Increase(result.value.important_users[1])
    /\ result.value.returned[1] = result.value.important_users[1]

----------------------------------------------------------------------------
(* C26 *)

\* a step that is a call of build_graph of SocialGraph
BuildStep ==
    /\ variant = "social"
    /\ call.at = "idle" /\ call'.at = "idle"
    /\ result'.op = "none"
    /\ log' # log \/ pc' # pc \/ round' # round \/ socVars' # socVars

\* the lists of communities the label propagation can end with on the
\* present graph
CurrentCommunities ==
    {UniqueCommunities(Soc, community_map, min_group_size) :
        community_map \in Propagate(Soc, [u \in DOMAIN nodes |-> u], 0),
        min_group_size \in MinGroupSizes}

\* the communities on record are communities of the present graph
AnswerIsCurrent ==
    (variant = "social" /\ result.op = "find_natural_groups")
        => result.value \in CurrentCommunities

\* C26: build_graph clears the derived caches in the same step; after a
\* build_graph the next find_natural_groups recomputes the communities from
\* the current graph, and no sequence of builds and queries returns
\* communities computed from an earlier graph.
C26_RebuildClearsTheCache ==
    /\ [][BuildStep => communities_cache'.is_none]_vars
    /\ [][(variant = "social" /\ call.at = "idle" /\ communities_cache.is_none)
            => (UNCHANGED result \/ result'.op # "find_natural_groups")]_vars
    /\ []AnswerIsCurrent

\* communities returned for a graph that has been rebuilt
C26_Witness ==
    /\ variant = "social"
    /\ round = 2
    /\ log # EmptyBag
    /\ result.op = "find_natural_groups"
    /\ result.value # <<>>

\* no build_graph finds a filled cache
NoRebuildOverACache == [][BuildStep => communities_cache.is_none]_vars

----------------------------------------------------------------------------
(* C27 *)

\* C27: in SocialGraph the forward and the reverse adjacency mirror each
\* other: after any sequence of build_graph and _add_edge, edges[u][v] is
\* there exactly when reverse_edges[v][u] is, with the same weight, and both
\* endpoints of every edge are in nodes.
C27_ReverseMirrorsForward ==
    variant = "social" =>
        /\ \A u \in DOMAIN edges : \A v \in DOMAIN edges[u] :
              /\ u \in DOMAIN nodes /\ v \in DOMAIN nodes
              /\ u \in DOMAIN Inner(reverse_edges, v)
              /\ reverse_edges[v][u] = edges[u][v]
        /\ \A v \in DOMAIN reverse_edges : \A u \in DOMAIN reverse_edges[v] :
              /\ u \in DOMAIN nodes /\ v \in DOMAIN nodes
              /\ v \in DOMAIN Inner(edges, u)
              /\ edges[u][v] = reverse_edges[v][u]

\* two users with an edge in each direction, of different weights
C27_Witness ==
    /\ variant = "social"
    /\ \E u \in DOMAIN edges : \E v \in DOMAIN edges[u] :
          /\ u \in DOMAIN Inner(edges, v)
          /\ edges[u][v] # edges[v][u]

----------------------------------------------------------------------------
(* C28 *)

\* a call of find_natural_groups of SocialGraph is running
Propagating == variant = "social" /\ call.at # "idle"

\* communities and community_map say the same: u is a member of
\* communities[c] exactly when community_map[u] is c
MapAgreesWithCommunities ==
    /\ DOMAIN call.community_map = DOMAIN nodes
    /\ \A u \in DOMAIN nodes : call.community_map[u] \in DOMAIN call.communities
    /\ \A u \in DOMAIN nodes : \A c \in DOMAIN call.communities :
          u \in call.communities[c] <=> call.community_map[u] = c

\* every vertex is a member of exactly one community
ExactlyOneCommunity ==
    \A u \in DOMAIN nodes :
        Cardinality({c \in DOMAIN call.communities : u \in call.communities[c]}) = 1

\* the communities of a returned list are different and share no member
ReturnedAreDisjoint ==
    \A i, j \in DOMAIN result.value :
        i # j => /\ result.value[i] # result.value[j]
                 /\ result.value[i] \cap result.value[j] = {}

\* C28: throughout the label propagation of SocialGraph a vertex u is a
\* member of communities[c] if and only if community_map[u] = c, so every
\* vertex is in exactly one community, and the list find_natural_groups
\* returns never holds two communities with the same or overlapping members.
C28_MapAndCommunitiesAgree ==
    /\ Propagating => (MapAgreesWithCommunities /\ ExactlyOneCommunity)
    /\ (variant = "social" /\ result.op = "find_natural_groups") => ReturnedAreDisjoint

\* in the middle of a pass after the first, with a community of three
\* members and a community left empty
C28_Witness ==
    /\ Propagating
    /\ call.at = "for" /\ call.iteration >= 2 /\ call.visited >= 1
    /\ \E c \in DOMAIN call.communities : Cardinality(call.communities[c]) >= 3
    /\ \E c \in DOMAIN call.communities : call.communities[c] = {}

\* two communities or more are returned, one of them of several members
SeveralCommunitiesReturned ==
    /\ variant = "social" /\ result.op = "find_natural_groups"
    /\ Len(result.value) >= 2
    /\ \E i \in DOMAIN result.value : Cardinality(result.value[i]) >= 2

----------------------------------------------------------------------------
(* C29 *)

\* the step from the caller into make_graphql_request, which sends the
\* request charged by check_rate_limit
RequestBegins == variant = "miner" /\ miner.at = "idle" /\ miner'.at = "post"

\* the request is charged to the token in use, which has requests left
ChargedToCurrentToken ==
    /\ miner.current_token_requests < miner.requests_per_token
    /\ miner'.current_token_index = miner.current_token_index
    /\ miner'.current_token_requests = miner.current_token_requests + 1

\* the token in use is exhausted: the next token in the round takes the
\* request as its first
ChargedToNextToken ==
    /\ miner.current_token_requests = miner.requests_per_token
    /\ miner'.current_token_index = (miner.current_token_index + 1) % Len(miner.tokens)
    /\ miner'.current_token_requests = 1

\* the index is valid, the header carries the token of the index, and the
\* requests charged to it are within requests_per_token
TokenWithinLimit ==
    variant = "miner" =>
        /\ miner.current_token_index \in 0..(Len(miner.tokens) - 1)
        /\ miner.authorization = miner.tokens[miner.current_token_index + 1]
        /\ miner.current_token_requests <= miner.requests_per_token

\* C29: in GitHubMiner current_token_index is always a valid index into
\* tokens, the tokens are used in round-robin order, and the requests charged
\* to the current token never exceed requests_per_token: the token is rotated
\* and the counter reset before a request that would exceed it is sent.
C29_TokenRotation ==
    /\ []TokenWithinLimit
    /\ [][RequestBegins => (ChargedToCurrentToken \/ ChargedToNextToken)]_vars
    /\ [][(variant = "miner" /\ miner.at = "post") =>
            UNCHANGED <<miner.current_token_index, miner.current_token_requests,
                        miner.authorization>>]_vars

\* the round of three tokens has come back to the first, which is at its
\* limit again while a request is being sent
C29_Witness ==
    /\ variant = "miner"
    /\ Len(miner.tokens) = 3
    /\ miner.rotated_from = 2
    /\ miner.current_token_index = 0
    /\ miner.requests_per_token >= 2
    /\ miner.current_token_requests = miner.requests_per_token
    /\ miner.at = "post"

----------------------------------------------------------------------------
(* C30 *)

\* a response after which make_graphql_request tries again: 502, 503, 504 or
\* a network exception
Temporary(response) == response.raised \/ response.status \in {502, 503, 504}

\* a 200 response whose body has no GraphQL errors
Success(response) == ~response.raised /\ response.status = 200 /\ ~response.errors

\* the value on record was returned after the responses on record
ReturnedAsClaimed ==
    (variant = "miner" /\ result.op = "make_graphql_request") =>
        LET responses == result.arg
            last == responses[Len(responses)]
        IN /\ Len(responses) \in 1..3
           /\ \A i \in 1..(Len(responses) - 1) : Temporary(responses[i])
           /\ Temporary(last) => Len(responses) = 3
           /\ result.value = IF Success(last) THEN <<Data>> ELSE <<None>>

\* C30: make_graphql_request always terminates after at most 3 HTTP
\* attempts: it tries again only after a 502/503/504 response or a network
\* exception, returns the data on the first 200 response without GraphQL
\* errors, and returns None on a 200 response with errors, on any other
\* status, or once the third attempt has failed.
C30_RequestTerminates ==
    /\ [](variant = "miner" => Len(miner.responses) <= 3)
    /\ [](miner.at = "post" => <>(miner.at = "idle"))
    /\ [][(variant = "miner" /\ miner.at = "post" /\ miner'.at = "post") =>
            /\ Temporary(miner'.responses[Len(miner'.responses)])
            /\ Len(miner'.responses) < 3]_vars
    /\ []ReturnedAsClaimed

\* the data are returned by the third attempt, after a network exception and
\* a 503
C30_Witness ==
    /\ variant = "miner"
    /\ result.op = "make_graphql_request"
    /\ Len(result.arg) = 3
    /\ result.arg[1].raised
    /\ result.arg[2].status = 503
    /\ result.value = <<Data>>

\* the third attempt has failed like the two before
ThirdAttemptFailed ==
    /\ variant = "miner"
    /\ result.op = "make_graphql_request"
    /\ Len(result.arg) = 3
    /\ Temporary(result.arg[3])
    /\ result.value = <<None>>
====
